---------------------------- MODULE Spec2Model ----------------------------
(***************************************************************************)
(* A model of the Garmin Connect integration for Home Assistant            *)
(* (custom_components/garmin_connect).                                     *)
(*                                                                         *)
(*   SpecAlarm    calculate_next_active_alarms (coordinator.py), a pure    *)
(*                function, applied to alarm lists, time zones and         *)
(*                current times drawn from bounded sets.                   *)
(*   SpecCycle    the refresh cycle _async_update_data (coordinator.py):   *)
(*                its vendor calls one by one, each returning or raising,  *)
(*                its three except blocks and the re-login.                *)
(*   SpecService  the write-back actions of services.py and sensor.py.     *)
(*                                                                         *)
(* Time.  Python compares and adds to aware datetimes that share one       *)
(* tzinfo object on their wall-clock fields (the tzinfo and fold are       *)
(* ignored), and ZoneInfo(key) returns one cached object per key.  Every   *)
(* datetime of calculate_next_active_alarms carries ZoneInfo(time_zone),   *)
(* so a datetime is modelled by its local wall-clock reading: the number   *)
(* of seconds since 00:00 of day 0 of the model's calendar, and day 0 is a *)
(* Monday.  "Time" in the properties below is this local wall-clock time.  *)
(***************************************************************************)
EXTENDS Integers, Sequences, FiniteSets, TLC

(***************************************************************************)
(* Bounds of the model.                                                    *)
(***************************************************************************)
\* The current time is drawn from the days 0..MaxDay (6: one of every weekday).
MaxDay == 6
\* Alarm lists of sample alarms have at most MaxAlarms alarms.
MaxAlarms == 2
\* A single alarm's alarmDays list has at most MaxAlarmDays days.
MaxAlarmDays == 2
\* At most MaxLogins vendor logins of the config flows succeed.
MaxLogins == 3
\* A flow has at most MaxRejected MFA codes rejected.
MaxRejected == 2
\* The user owns at most MaxGear pieces of gear.
MaxGear == 2
\* The host runs at most MaxCycles refresh cycles.
MaxCycles == 2

(***************************************************************************)
(* Constants of the program.                                               *)
(***************************************************************************)
\* const.py: DAY_TO_NUMBER
DAY_TO_NUMBER ==
    [Mo |-> 1, M |-> 1, Tu |-> 2, We |-> 3, W |-> 3, Th |-> 4,
     Fr |-> 5, F |-> 5, Sa |-> 6, Su |-> 7]

\* timedelta(days=1), in seconds
SecondsPerDay == 86400
\* timedelta(minutes=1), in seconds
SecondsPerMinute == 60
\* timedelta(days=7), in days
DaysPerWeek == 7

VARIABLES
    \* ---- calculate_next_active_alarms: its arguments and its result
    alarms,        \* the alarms argument: [isNone, items]
    time_zone,     \* the time_zone argument
    now,           \* datetime.now(ZoneInfo(time_zone)), wall-clock seconds
    now_fold,      \* its fold: 1 in the second pass of an hour the clocks repeat
    next_alarms,   \* the returned value: [kind, value]
    alarm_pc,      \* "call" before the function ran, "returned" after
    \* ---- the config entry
    entry_has_token,   \* CONF_TOKEN in self.entry.data
    \* ---- _async_update_data: one refresh cycle
    cycle_block,   \* "idle", "main", "relogin", "second", "gear", "return", "done"
    cycle_i,       \* the next call of the block (an index of its call list)
    summary_has_profile,  \* Gear.USERPROFILE_ID in summary
    body_has_total,       \* "totalAverage" in body
    gear,          \* len(gear)
    main_fault,    \* what the main block's except clause caught, or "none"
    late_fault,    \* [call, kind] an except clause of the later blocks caught
    swallowed,     \* vendor failures an inner `except Exception` swallowed
    relogins,      \* calls of async_login in this cycle
    login_result,  \* what that async_login gave, or "none"
    cycle_result,  \* what the cycle returned or raised, or "none"
    api_calls,     \* the vendor calls issued in this cycle, in order
    cycles,        \* cycles started so far
    \* ---- one invocation of a write-back action
    svc_handler,   \* the handler invoked, or "none"
    svc_pc,        \* "idle", "login", "file", "lookup", "defaults", "unset", "set",
                   \* "write", "done"
    svc_login,     \* what async_login gave in this invocation, or "none"
    svc_calls,     \* the vendor calls this invocation issued, in order
    svc_error,     \* the error this invocation raised, or "none"
    svc_setting,   \* set_active_gear: the setting argument
    svc_type,      \* set_active_gear: activity_type_id
    svc_uuid,      \* set_active_gear: self._uuid
    svc_todo,      \* set_active_gear: the rest of to_deactivate
    \* ---- the vendor service
    srv_defaults,  \* the (activityTypePk, uuid) pairs that are a default gear
    \* ---- the end of _async_update_data: extraction and return statement
    fetched,       \* the locals the fetch blocks assigned, by shape
    snapshot,      \* what the return statement gave: [kind, ...]
    extract_pc,    \* "call" before the extraction ran, "returned" after
    \* ---- the worker-thread pool (hass.async_add_executor_job)
    in_flight,     \* the number of vendor calls running in the pool, by issuer
    cycle_await,   \* the refresh cycle is suspended in an await of its call(s)
    svc_await,     \* the service handler is suspended in an await of its call
    \* ---- the config flows and the host's registry of config entries
    flows,         \* per flow: its step, its fields and the result of its last step
    entries,       \* the config entries of the domain, in order of creation
    tokens,        \* successful vendor logins so far (each yields a fresh token)
    last_token,    \* per username, the token of its most recent successful login
    \* ---- the sensor entities of the body-composition group
    coordinator_data, \* coordinator.data: None before the first refresh, then a dict
    state,            \* per sensor key, the native_value written at the last refresh
    last_known,       \* per sensor key, the last value other than None it reported
    refreshes,        \* the refreshes delivered so far
    \* ---- the midnight fallback of the daily summary
    current_hour,      \* datetime.now(ZoneInfo(time_zone)).hour
    today_summary,     \* what get_user_summary(today) returned
    yesterday_summary, \* what get_user_summary(yesterday) returns when asked
    summary,           \* the local `summary` after the fallback
    summary_calls,     \* the get_user_summary calls made, in order
    fallback_pc,       \* "call" before the fallback ran, then how it ended
    \* ---- one call of async_login
    login_copy,        \* the revision called: coordinator.py or __init__.py
    login_has_token,   \* CONF_TOKEN in self.entry.data
    login_outcome,     \* what self.api.login does when called
    login_returned,    \* "True", "False" or the exception raised; "none" before
    login_calls,       \* the vendor calls async_login made
    \* ---- setup and unload of config entries (__init__.py)
    hass_data,         \* the entry ids in hass.data[DOMAIN]
    entry_state,       \* per entry, the host's state of the entry
    forwarded,         \* the entries whose sensor platform is set up
    setup_calls,       \* setup and unload calls so far
    \* ---- the user level
    badges,            \* get_earned_badges: a list of badges
    user_points,       \* summary["userPoints"]
    user_level,        \* summary["userLevel"]
    level_pc,          \* "call" before the computation, "done" after
    \* ---- the options of a config entry and the sensors set up from them
    options,           \* entry.options.get(CONF_SENSOR_GROUPS): None or a list
    submitted,         \* the last selection submitted through the options flow
    entities,          \* the keys of the sensors the last sensor setup created
    option_steps       \* steps of the options flow and sensor setups so far

alarmVars == <<alarms, time_zone, now, now_fold, next_alarms, alarm_pc>>

cycleVars ==
    <<cycle_block, cycle_i, summary_has_profile, body_has_total, gear, main_fault,
      late_fault, swallowed, relogins, login_result, cycle_result, api_calls, cycles>>

svcVars ==
    <<svc_handler, svc_pc, svc_login, svc_calls, svc_error, svc_setting, svc_type,
      svc_uuid, svc_todo, srv_defaults>>

snapVars == <<fetched, snapshot, extract_pc>>

poolVars == <<in_flight, cycle_await, svc_await>>

flowVars == <<flows, entries, tokens, last_token>>

sensorVars == <<coordinator_data, state, last_known, refreshes>>

fallbackVars ==
    <<current_hour, today_summary, yesterday_summary, summary, summary_calls,
      fallback_pc>>

loginVars ==
    <<login_copy, login_has_token, login_outcome, login_returned, login_calls>>

setupVars == <<hass_data, entry_state, forwarded, setup_calls>>

levelVars == <<badges, user_points, user_level, level_pc>>

optionVars == <<options, submitted, entities, option_steps>>

\* The parts that the refresh cycle, the services, the flows and the sensors
\* above do not touch.
restVars == <<loginVars, setupVars, levelVars, optionVars>>

vars ==
    <<alarmVars, entry_has_token, cycleVars, svcVars, snapVars, poolVars, flowVars,
      sensorVars, fallbackVars,
      restVars>>

\* What the actions of one part leave alone: the variables of the other parts.
exceptAlarm ==
    <<entry_has_token, cycleVars, svcVars, snapVars, poolVars, flowVars, sensorVars, fallbackVars,
      restVars>>
exceptCycle ==
    <<alarmVars, svcVars, snapVars, poolVars, flowVars, sensorVars, fallbackVars,
      restVars>>
exceptService ==
    <<alarmVars, entry_has_token, cycleVars, snapVars, poolVars, flowVars, sensorVars, fallbackVars,
      restVars>>
exceptSnapshot ==
    <<alarmVars, entry_has_token, cycleVars, svcVars, poolVars, flowVars, sensorVars, fallbackVars,
      restVars>>

(***************************************************************************)
(* Python values.  A value that may be None, a list or a raised exception  *)
(* is a record [kind, value], so that `result == []` is kind = "list" and  *)
(* value = <<>>.                                                           *)
(***************************************************************************)
PyList(s) == [kind |-> "list", value |-> s]
PyNone == [kind |-> "None", value |-> <<>>]
PyRaise(e) == [kind |-> e, value |-> <<>>]

(***************************************************************************)
(* datetime                                                                *)
(***************************************************************************)
\* The zones of the model and their UTC offsets in minutes (the suffix of isoformat).
TimeZones == {"UTC", "Asia/Tokyo"}
\* The standard offset of a zone, in minutes.
utcoffset(tz) ==
    CASE tz = "UTC" -> 0
      [] tz = "Asia/Tokyo" -> 540
      [] OTHER -> 60

\* A zone with daylight saving time: its clocks go back from 03:00 to 02:00 on
\* the Sunday of the week followed (day 6), so the wall-clock hour from 02:00
\* repeats.  DstEnd is the wall-clock second at which the repeated hour ends.
DstZone == "Europe/Amsterdam"
DstEnd == 6 * SecondsPerDay + 3 * 3600

\* tzinfo.dst() in minutes of a wall-clock time with fold 0, which is what the
\* result of datetime + timedelta carries: the first pass of a repeated hour.
dst(tz, dt) == IF tz = DstZone /\ dt < DstEnd THEN 60 ELSE 0

\* datetime.date()
date(dt) == dt \div SecondsPerDay
\* date.isoweekday(): Monday is 1 and Sunday is 7
isoweekday(d) == (d % DaysPerWeek) + 1
\* datetime.combine(d, datetime.min.time(), tzinfo=...)
combine(d) == d * SecondsPerDay
\* datetime.isoformat(): "YYYY-MM-DDTHH:MM:SS+HH:MM", a string of fixed width whose
\* fields are zero-padded, here the tuple of its fields; the date is one field.
isoformat(dt, tz) ==
    <<date(dt), (dt % SecondsPerDay) \div 3600, (dt % 3600) \div 60, dt % 60,
      utcoffset(tz) + dst(tz, dt)>>

\* str < str on two isoformat strings: the first differing field decides
RECURSIVE str_lt_from(_, _, _)
str_lt_from(a, b, i) ==
    IF i > Len(a) THEN FALSE
    ELSE IF a[i] # b[i] THEN a[i] < b[i]
    ELSE str_lt_from(a, b, i + 1)
str_lt(a, b) == str_lt_from(a, b, 1)

\* sorted(list) of strings: ascending, stable
RECURSIVE insert_sorted(_, _)
insert_sorted(s, x) ==
    IF s = <<>> THEN <<x>>
    ELSE IF str_lt(x, Head(s)) THEN <<x>> \o s
    ELSE <<Head(s)>> \o insert_sorted(Tail(s), x)
RECURSIVE sorted_from(_, _)
sorted_from(acc, s) ==
    IF s = <<>> THEN acc ELSE sorted_from(insert_sorted(acc, Head(s)), Tail(s))
sorted_unsorted(s) == s
sorted(s) == sorted_from(<<>>, s)

(***************************************************************************)
(* calculate_next_active_alarms (coordinator.py, lines 440-476)            *)
(***************************************************************************)
\* `if not alarms`: None, [] and {} are falsy
falsy_only_none(a) == a.isNone
falsy(a) == a.isNone \/ a.items = <<>>

\* `if alarm_setting["alarmMode"] != "ON": continue`
is_skipped_never(alarm_setting) == FALSE
is_skipped(alarm_setting) == alarm_setting.alarmMode # "ON"

\* day == "ONCE": today's midnight plus alarm_time minutes, tomorrow if before now
once_alarm_le(n, alarm_time) ==
    LET midnight == combine(date(n))
        alarm == midnight + alarm_time * SecondsPerMinute
    IN  IF alarm <= n THEN alarm + SecondsPerDay ELSE alarm
once_alarm(n, alarm_time) ==
    LET midnight == combine(date(n))
        alarm == midnight + alarm_time * SecondsPerMinute
    IN  IF alarm < n THEN alarm + SecondsPerDay ELSE alarm

\* a weekday: Monday's midnight of this week plus the day's offset and alarm_time
weekly_alarm_sunday(n, day, alarm_time) ==
    LET start_of_week == combine(date(n) - (isoweekday(date(n)) % DaysPerWeek))
        alarm == start_of_week + (DAY_TO_NUMBER[day] - 1) * SecondsPerDay
                               + alarm_time * SecondsPerMinute
    IN  IF alarm < n THEN alarm + DaysPerWeek * SecondsPerDay ELSE alarm
weekly_alarm(n, day, alarm_time) ==
    LET start_of_week == combine(date(n) - (isoweekday(date(n)) - 1))
        alarm == start_of_week + (DAY_TO_NUMBER[day] - 1) * SecondsPerDay
                               + alarm_time * SecondsPerMinute
    IN  IF alarm < n THEN alarm + DaysPerWeek * SecondsPerDay ELSE alarm

\* DAY_TO_NUMBER[day] raises KeyError for a day that is no key of it
raises_KeyError(day) == day # "ONCE" /\ day \notin DOMAIN DAY_TO_NUMBER

\* the body of `for day in alarm_setting["alarmDays"]`: the string appended
alarm_string(n, tz, day, alarm_time) ==
    isoformat(IF day = "ONCE" THEN once_alarm(n, alarm_time)
              ELSE weekly_alarm(n, day, alarm_time), tz)

\* The two loops, from alarm i and day j on, with active_alarms = acc so far:
\* the list appended to, or KeyError at the first day that is no key.
RECURSIVE loop(_, _, _, _, _, _)
loop(items, tz, n, i, j, acc) ==
    IF i > Len(items) THEN PyList(acc)
    ELSE IF is_skipped(items[i]) \/ j > Len(items[i].alarmDays)
         THEN loop(items, tz, n, i + 1, 1, acc)
    ELSE IF raises_KeyError(items[i].alarmDays[j]) THEN PyRaise("KeyError")
    ELSE loop(items, tz, n, i, j + 1,
              Append(acc, alarm_string(n, tz, items[i].alarmDays[j],
                                       items[i].alarmTime)))

\* `return sorted(active_alarms) if active_alarms else None`
final_result_always_list(active_alarms) == PyList(sorted(active_alarms))
final_result(active_alarms) ==
    IF active_alarms # <<>> THEN PyList(sorted(active_alarms)) ELSE PyNone

calculate_next_active_alarms(a, tz, n) ==
    IF falsy(a) THEN PyList(<<>>)
    ELSE LET r == loop(a.items, tz, n, 1, 1, <<>>)
         IN  IF r.kind = "list" THEN final_result(r.value) ELSE r

(***************************************************************************)
(* The refresh cycle: _async_update_data (coordinator.py, lines 89-437).   *)
(***************************************************************************)
\* What a vendor call does besides returning: the three failures of the vendor
\* client, requests' HTTPError by status code, one of (KeyError, TypeError,
\* ValueError, ConnectionError), and any other exception.
Failures ==
    {"auth", "rate", "conn", "http401", "http429", "http500", "KeyError", "Exception"}
Outcomes == {"ok"} \cup Failures
\* GarminConnectAuthenticationError, ...TooManyRequestsError, ...ConnectionError
VendorFailures == {"auth", "rate", "conn"}

\* The vendor calls of the first try block (lines 125-269), in order.
\* "get_user_summary:yesterday" is the midnight fallback's call of get_user_summary
\* with yesterday's date (lines 132-139).
MainCalls ==
    <<"get_user_summary", "get_user_summary:yesterday", "get_daily_steps",
      "get_body_composition",
      "get_activities_by_date", "get_workouts", "get_earned_badges",
      "get_training_readiness", "get_training_status", "get_lactate_threshold",
      "get_device_alarms", "get_activity_types", "get_sleep_data", "get_hrv_data",
      "get_endurance_score", "get_hill_score", "get_menstrual_data_for_date">>
\* The vendor calls of the second try block (lines 280-320), in order.
SecondCalls ==
    <<"get_gear", "get_fitnessage_data", "get_hydration_data", "get_blood_pressure">>
\* The vendor calls of the third try block (lines 339-352), in order.
GearCalls == <<"get_gear_stats", "get_gear_defaults">>
\* The calls inside an inner try whose `except Exception` swallows everything
\* (lines 186-194, 200-206, 209-215, 218-224, 260-269, 296-320).
SwallowedCalls ==
    {"get_workouts", "get_training_readiness", "get_training_status",
     "get_lactate_threshold", "get_menstrual_data_for_date", "get_blood_pressure"}

NoFault == [call |-> "none", kind |-> "none"]

\* What the cycle hands to the host: a returned value or a raised exception.
Returns == {"snapshot", "empty"}
Raises ==
    {"ConfigEntryAuthFailed", "ConfigEntryNotReady", "UpdateFailed", "HTTPError",
     "KeyError", "TypeError", "Exception"}
\* The exception a failure is when nothing catches it.
propagated(kind) ==
    CASE kind = "auth" -> "GarminConnectAuthenticationError"
      [] kind = "rate" -> "GarminConnectTooManyRequestsError"
      [] kind = "conn" -> "GarminConnectConnectionError"
      [] kind \in {"http401", "http429", "http500"} -> "HTTPError"
      [] OTHER -> kind

\* async_login (lines 53-87): True, False or the exception raised, for each
\* outcome of self.api.login; without a token no login call is made.
async_login_true(outcome, has_token) == "True"
async_login(outcome, has_token) ==
    CASE ~has_token -> "ConfigEntryAuthFailed"
      [] outcome = "ok" -> "True"
      [] outcome = "auth" -> "ConfigEntryAuthFailed"
      \* a GarminConnectAuthenticationError that has no `response`: the clause
      \* reads err.response.text for its log line before it raises
      [] outcome = "auth_bare" -> "AttributeError"
      [] outcome = "rate" -> "False"
      [] outcome = "conn" -> "ConfigEntryNotReady"
      [] outcome = "http401" -> "ConfigEntryAuthFailed"
      [] outcome = "http429" -> "False"
      [] OTHER -> "False"

\* async_login of the coordinator __init__.py sets up (lines 82-121), the one the
\* sensors hold: a missing token raises KeyError inside the try, and `except
\* KeyError` turns that and a KeyError of self.api.login into ConfigEntryAuthFailed.
async_login_init(outcome, has_token) ==
    IF outcome = "KeyError" THEN "ConfigEntryAuthFailed"
    ELSE async_login(outcome, has_token)

\* The except clause of the first try block (lines 271-278): the three vendor
\* failures lead to a re-login, anything else is not caught.
main_handler_any(kind) == "relogin"
main_handler(kind) == IF kind \in VendorFailures THEN "relogin" ELSE propagated(kind)

\* The except clauses of the second try block (lines 322-337).
second_handler_auth_empty(kind) ==
    CASE kind = "conn" -> "ConfigEntryNotReady"
      [] kind = "http401" -> "ConfigEntryAuthFailed"
      [] OTHER -> "empty"
second_handler_conn_empty(kind) ==
    CASE kind = "auth" -> "ConfigEntryAuthFailed"
      [] kind = "http401" -> "ConfigEntryAuthFailed"
      [] OTHER -> "empty"
second_handler(kind) ==
    CASE kind = "auth" -> "ConfigEntryAuthFailed"
      [] kind = "rate" -> "empty"
      [] kind = "conn" -> "ConfigEntryNotReady"
      [] kind = "http401" -> "ConfigEntryAuthFailed"
      [] kind = "http429" -> "empty"
      [] kind = "http500" -> "empty"
      [] OTHER -> "empty"

\* The except clauses of the third try block (lines 353-362): "pass" goes on
\* to the return statement.
gear_handler(kind) ==
    CASE kind = "auth" -> "ConfigEntryAuthFailed"
      [] kind = "rate" -> "ConfigEntryNotReady"
      [] kind = "conn" -> "ConfigEntryNotReady"
      [] kind \in {"http401", "http429", "http500"} -> "pass"
      [] kind = "KeyError" -> "pass"
      [] OTHER -> propagated(kind)

\* The call of the first block after call i: yesterday's summary is fetched only
\* when the midnight fallback applies (`current_hour < 2 and (not summary or
\* summary.get("totalSteps") in (None, 0))`, line 132).
main_after(i, fallback) == IF i = 1 /\ ~fallback THEN 3 ELSE i + 1

\* The first call of the second block from index i on that is issued:
\* get_gear only `if Gear.USERPROFILE_ID in summary` (line 281).
second_from(i, has_profile) == IF i = 1 /\ ~has_profile THEN 2 ELSE i
\* The first call of the third block from index i on that is issued, or 3 for
\* none: get_gear_stats only `if gear` (line 340), get_gear_defaults only
\* inside it and `if Gear.USERPROFILE_ID in summary` (line 349).
gear_from(i, n_gear, has_profile) ==
    IF n_gear = 0 THEN 3
    ELSE IF i = 2 /\ ~has_profile THEN 3
    ELSE i

\* The state before the host's first refresh, and between cycles.
CycleIdle ==
    /\ cycle_block = "idle"
    /\ cycle_i = 1
    /\ summary_has_profile = FALSE
    /\ body_has_total = FALSE
    /\ gear = 0
    /\ main_fault = "none"
    /\ late_fault = NoFault
    /\ swallowed = {}
    /\ relogins = 0
    /\ login_result = "none"
    /\ cycle_result = "none"
    /\ api_calls = <<>>
    /\ cycles = 0

\* No cycle is running: the host's timer may start one.
CanStartCycle == cycle_block \in {"idle", "done"}

\* The host's timer calls _async_update_data: the locals are initialised
\* (lines 91-118).
StartCycle ==
    /\ CanStartCycle
    /\ cycles < MaxCycles
    /\ cycles' = cycles + 1
    /\ cycle_block' = "main"
    /\ cycle_i' = 1
    /\ summary_has_profile' = FALSE
    /\ body_has_total' = FALSE
    /\ gear' = 0
    /\ main_fault' = "none"
    /\ late_fault' = NoFault
    /\ swallowed' = {}
    /\ relogins' = 0
    /\ login_result' = "none"
    /\ cycle_result' = "none"
    /\ api_calls' = <<>>
    /\ UNCHANGED entry_has_token

\* The cycle ends handing `result` to the host.
EndCycle(result) ==
    /\ cycle_block' = "done"
    /\ cycle_result' = result

\* Control passes from the end of the second block to the third block, or to
\* the return statement when the third block issues no call.
EnterGear(n_gear, has_profile) ==
    IF gear_from(1, n_gear, has_profile) > Len(GearCalls)
    THEN cycle_block' = "return" /\ cycle_i' = 1
    ELSE cycle_block' = "gear" /\ cycle_i' = gear_from(1, n_gear, has_profile)

\* Control passes to the second block (after the first block or the re-login).
EnterSecond(has_profile) ==
    /\ cycle_block' = "second"
    /\ cycle_i' = second_from(1, has_profile)

\* One vendor call of the first try block.
FetchMain ==
    /\ cycle_block = "main"
    /\ \E outcome \in Outcomes, profile \in BOOLEAN, fallback \in BOOLEAN :
        LET call == MainCalls[cycle_i]
            is_summary == call \in {"get_user_summary", "get_user_summary:yesterday"}
        IN
        /\ api_calls' = Append(api_calls, call)
        \* summary is assigned by get_user_summary, and may be replaced by
        \* yesterday's summary (line 138)
        /\ summary_has_profile' =
              IF is_summary /\ outcome = "ok" THEN profile ELSE summary_has_profile
        /\ ~(is_summary /\ outcome = "ok") => profile
        /\ ~(call = "get_user_summary" /\ outcome = "ok") => ~fallback
        /\ body_has_total' =
              (body_has_total \/ (call = "get_body_composition" /\ outcome = "ok"))
        /\ IF outcome = "ok" \/ call \in SwallowedCalls
           THEN /\ swallowed' =
                     IF outcome \in VendorFailures THEN swallowed \cup {outcome}
                     ELSE swallowed
                /\ IF cycle_i < Len(MainCalls)
                   THEN cycle_block' = "main" /\ cycle_i' = main_after(cycle_i, fallback)
                   ELSE EnterSecond(summary_has_profile)
                /\ UNCHANGED <<main_fault, cycle_result>>
           ELSE /\ main_fault' = outcome
                /\ IF main_handler(outcome) = "relogin"
                   THEN cycle_block' = "relogin" /\ UNCHANGED <<cycle_i, cycle_result>>
                   ELSE EndCycle(main_handler(outcome)) /\ UNCHANGED cycle_i
                /\ UNCHANGED swallowed
    /\ UNCHANGED <<gear, late_fault, relogins, login_result, cycles>>
    /\ UNCHANGED entry_has_token

\* `if not await self.async_login(): raise UpdateFailed(error)` (lines 276-278).
Relogin ==
    /\ cycle_block = "relogin"
    /\ \E outcome \in Outcomes :
        LET r == async_login(outcome, entry_has_token) IN
        /\ relogins' = relogins + 1
        /\ login_result' = r
        /\ api_calls' = IF entry_has_token THEN Append(api_calls, "login") ELSE api_calls
        /\ IF r = "True" THEN EnterSecond(summary_has_profile) /\ UNCHANGED cycle_result
           ELSE IF r = "False" THEN EndCycle("UpdateFailed") /\ UNCHANGED cycle_i
           ELSE EndCycle(r) /\ UNCHANGED cycle_i
    /\ UNCHANGED <<summary_has_profile, body_has_total, gear, main_fault, late_fault,
                   swallowed, cycles>>
    /\ UNCHANGED entry_has_token

\* One vendor call of the second try block.
FetchSecond ==
    /\ cycle_block = "second"
    /\ \E outcome \in Outcomes, n_gear \in 0..MaxGear :
        LET call == SecondCalls[cycle_i] IN
        /\ api_calls' = Append(api_calls, call)
        /\ gear' = IF call = "get_gear" /\ outcome = "ok" THEN n_gear ELSE gear
        /\ call # "get_gear" => n_gear = 0
        /\ IF outcome = "ok" \/ call \in SwallowedCalls
           THEN /\ swallowed' =
                     IF outcome \in VendorFailures THEN swallowed \cup {outcome}
                     ELSE swallowed
                /\ IF cycle_i < Len(SecondCalls)
                   THEN cycle_block' = "second" /\ cycle_i' = cycle_i + 1
                   ELSE EnterGear(gear', summary_has_profile)
                /\ UNCHANGED <<late_fault, cycle_result>>
           ELSE /\ late_fault' = [call |-> call, kind |-> outcome]
                /\ EndCycle(second_handler(outcome))
                /\ UNCHANGED <<swallowed, cycle_i>>
    /\ UNCHANGED <<summary_has_profile, body_has_total, main_fault, relogins,
                   login_result, cycles>>
    /\ UNCHANGED entry_has_token

\* One vendor call of the third try block; get_gear_stats stands for the
\* gathered calls, one per piece of gear, and raises what the first failing one
\* raises.
FetchGear ==
    /\ cycle_block = "gear"
    /\ \E outcome \in Outcomes :
        LET call == GearCalls[cycle_i] IN
        /\ api_calls' = Append(api_calls, call)
        /\ IF outcome = "ok"
           THEN /\ IF gear_from(cycle_i + 1, gear, summary_has_profile) <= Len(GearCalls)
                   THEN cycle_block' = "gear" /\ cycle_i' = cycle_i + 1
                   ELSE cycle_block' = "return" /\ cycle_i' = 1
                /\ UNCHANGED <<late_fault, cycle_result>>
           ELSE /\ late_fault' = [call |-> call, kind |-> outcome]
                /\ IF gear_handler(outcome) = "pass"
                   THEN cycle_block' = "return" /\ cycle_i' = 1 /\ UNCHANGED cycle_result
                   ELSE EndCycle(gear_handler(outcome)) /\ UNCHANGED cycle_i
    /\ UNCHANGED <<summary_has_profile, body_has_total, gear, main_fault, swallowed,
                   relogins, login_result, cycles>>
    /\ UNCHANGED entry_has_token

(***************************************************************************)
(* The end of _async_update_data (lines 364-437): the extraction of the    *)
(* derived values and the return statement, as a function of the locals    *)
(* the fetch blocks assigned.  A fetched object is modelled by its shape.  *)
(***************************************************************************)
\* sleep_data: None, {}, {"dailySleepDTO": None}, {"dailySleepDTO": {}}, a DTO
\* without "sleepScores", a DTO whose "sleepScores" is None, a complete one.
SleepShapes ==
    {"None", "empty", "dto_none", "dto_empty", "no_scores", "scores_none", "full"}
\* The keys read under sleep_data["dailySleepDTO"] (lines 364-392) ...
SleepKeys ==
    <<"sleepScores", "sleepTimeSeconds", "deepSleepSeconds", "lightSleepSeconds",
      "remSleepSeconds", "awakeSleepSeconds">>
\* ... and the snapshot field each is stored under (lines 420-425).
SleepFields ==
    <<"sleepScore", "sleepTimeSeconds", "deepSleepSeconds", "lightSleepSeconds",
      "remSleepSeconds", "awakeSleepSeconds">>

\* The subscript chain sleep_data["dailySleepDTO"][key] (followed by
\* ["overall"]["value"] for the score): the value, or the exception raised.
\* Subscripting None raises TypeError, a missing key KeyError.
sleep_lookup(shape, key) ==
    CASE shape \in {"None", "dto_none"} -> "TypeError"
      [] shape \in {"empty", "dto_empty"} -> "KeyError"
      [] shape = "no_scores" -> IF key = "sleepScores" THEN "KeyError" ELSE "value"
      [] shape = "scores_none" -> IF key = "sleepScores" THEN "TypeError" ELSE "value"
      [] OTHER -> "value"

\* `try: x = ... except KeyError: pass`: x keeps its initial None on KeyError;
\* any other exception is not caught.
extract(lookup) == IF lookup = "KeyError" THEN "None" ELSE lookup

\* hrv_data, endurance_data, hill_data: None, {}, a dict without the key
\* tested, a dict with it.
StatusShapes == {"None", "empty", "no_key", "full"}
\* `if data and key in data: status = ...` (lines 394-410): the fetched value,
\* or the default the local was initialised to (lines 112-116).
status_of(shape) == IF shape = "full" THEN "value" ELSE "default"

\* fitnessage_data, hydration_data: None, {} or a dict with fields.
MappingShapes == {"None", "empty", "full"}
\* `**mapping` in the dict display of the return statement: the fields it
\* adds; unpacking None raises TypeError.
spread(shape) ==
    CASE shape = "None" -> "TypeError"
      [] shape = "empty" -> "None"
      [] OTHER -> "value"

\* The locals at the end of the fetch blocks.
FetchedValues ==
    [sleep_data : SleepShapes, hrv_data : StatusShapes, endurance_data : StatusShapes,
     hill_data : StatusShapes, fitnessage_data : MappingShapes,
     hydration_data : MappingShapes, body_has_total : BOOLEAN]
\* The values the locals are initialised to (lines 91-118); fitnessage_data and
\* hydration_data are first assigned by the second block.
InitialLocals ==
    [sleep_data |-> "empty", hrv_data |-> "empty", endurance_data |-> "empty",
     hill_data |-> "empty", fitnessage_data |-> "empty", hydration_data |-> "empty",
     body_has_total |-> FALSE]

\* Lines 364-437: the six sleep extractions in order, the three status tests,
\* and the dict display, whose items are evaluated in order: **summary,
\* **body["totalAverage"], the derived values, **fitnessage_data,
\* **hydration_data.  The first exception ends the cycle.
return_statement(f) ==
    LET sleep == [k \in DOMAIN SleepKeys |-> sleep_lookup(f.sleep_data, SleepKeys[k])]
    IN  IF \E k \in DOMAIN SleepKeys : sleep[k] = "TypeError" THEN PyRaise("TypeError")
        ELSE IF ~f.body_has_total THEN PyRaise("KeyError")
        ELSE IF "TypeError" \in {spread(f.fitnessage_data), spread(f.hydration_data)}
             THEN PyRaise("TypeError")
        ELSE [kind |-> "dict",
              value |->
                [sleep |-> [k \in DOMAIN SleepKeys |-> extract(sleep[k])],
                 hrvStatus |-> status_of(f.hrv_data),
                 enduranceScore |-> status_of(f.endurance_data),
                 hillScore |-> status_of(f.hill_data),
                 totalAverage |-> "value",
                 fitnessage |-> spread(f.fitnessage_data),
                 hydration |-> spread(f.hydration_data)]]

\* The issuers of vendor calls: the refresh cycle (its awaited call, and the
\* gathered per-gear lookups) and the service handler.
Issuers == {"cycle", "gather", "service"}
\* No vendor call is running.
PoolIdle ==
    /\ in_flight = [i \in Issuers |-> 0]
    /\ cycle_await = FALSE
    /\ svc_await = FALSE

SnapshotIdle ==
    /\ fetched = InitialLocals
    /\ snapshot = PyNone
    /\ extract_pc = "call"

SnapshotEntry ==
    /\ fetched \in FetchedValues
    /\ snapshot = PyNone
    /\ extract_pc = "call"

\* The extraction and the return statement run on the locals.
ExtractAndReturn ==
    /\ extract_pc = "call"
    /\ snapshot' = return_statement(fetched)
    /\ extract_pc' = "returned"
    /\ UNCHANGED fetched

\* The vendor call `call` of this cycle returned: it was issued and the
\* re-login did not follow it.
FetchedOk(call) ==
    \E k \in DOMAIN api_calls :
        /\ api_calls[k] = call
        /\ k = Len(api_calls) \/ api_calls[k + 1] # "login"

\* What the cycle hands to the host for what the return statement gave.
returned(r) == IF r.kind = "dict" THEN "snapshot" ELSE r.kind

\* The extraction and the return statement (lines 364-437) on the locals of
\* this cycle: `**body["totalAverage"]` raises KeyError when body is still the
\* empty dict it was initialised to, and sleep_data is still the empty dict
\* when get_sleep_data did not return.
ReturnSnapshot ==
    /\ cycle_block = "return"
    /\ \E sleep \in SleepShapes, fitnessage \in MappingShapes,
          hydration \in MappingShapes :
        \* hrv_data, endurance_data and hill_data raise nothing, whatever
        \* their shape
        LET f == [InitialLocals EXCEPT !.sleep_data = sleep,
                                       !.fitnessage_data = fitnessage,
                                       !.hydration_data = hydration,
                                       !.body_has_total = body_has_total]
        IN  /\ ~FetchedOk("get_sleep_data") => sleep = InitialLocals.sleep_data
            /\ EndCycle(returned(return_statement(f)))
    /\ UNCHANGED <<cycle_i, summary_has_profile, body_has_total, gear, main_fault,
                   late_fault, swallowed, relogins, login_result, api_calls, cycles>>
    /\ UNCHANGED entry_has_token

AlarmIdle ==
    /\ alarms = [isNone |-> TRUE, items |-> <<>>]
    /\ time_zone = "UTC"
    /\ now = 0
    /\ now_fold = 0
    /\ next_alarms = PyNone
    /\ alarm_pc = "call"

(***************************************************************************)
(* The write-back actions: the handlers of services.py (lines 95-244) and  *)
(* the entity services of sensor.py (lines 285-362 and 502-559).           *)
(***************************************************************************)
\* const.py: ServiceSetting
ONLY_THIS_AS_DEFAULT == "set this as default, unset others"
DEFAULT == "set as default"
UNSET_DEFAULT == "unset default"
Settings == {ONLY_THIS_AS_DEFAULT, DEFAULT, UNSET_DEFAULT}

\* The handlers registered by async_setup_services (services.py) ...
ServiceHandlers ==
    {"handle_add_body_composition", "handle_add_blood_pressure",
     "handle_create_activity", "handle_upload_activity"}
\* ... and the entity services of the sensors (sensor.py).
EntityHandlers == {"add_body_composition", "add_blood_pressure", "set_active_gear"}
Handlers == ServiceHandlers \cup EntityHandlers

\* The vendor method a handler writes with.
write_method(h) ==
    CASE h \in {"handle_add_body_composition", "add_body_composition"}
            -> "add_body_composition"
      [] h \in {"handle_add_blood_pressure", "add_blood_pressure"} -> "set_blood_pressure"
      [] h = "handle_create_activity" -> "create_manual_activity"
      [] h = "handle_upload_activity" -> "upload_activity"
      [] OTHER -> "set_gear_default"
\* The vendor methods that change the user's data.
WriteMethods ==
    {"add_body_composition", "set_blood_pressure", "create_manual_activity",
     "upload_activity", "set_gear_default"}

\* The error a handler raises when its write fails: services.py wraps it in a
\* HomeAssistantError, sensor.py lets the exception through.
write_error(h) ==
    CASE h = "handle_add_body_composition" -> "add_body_composition_failed"
      [] h = "handle_add_blood_pressure" -> "add_blood_pressure_failed"
      [] h = "handle_create_activity" -> "create_activity_failed"
      [] h = "handle_upload_activity" -> "upload_activity_failed"
      [] OTHER -> "Exception"

\* `if not await coordinator.async_login(): raise ...`: what follows each
\* result of async_login: the handler goes on, raises its login error, or the
\* exception async_login raised passes through.
login_gate_ignored(h, result) ==
    IF result \in {"True", "False"} THEN "proceed" ELSE result
login_gate(h, result) ==
    CASE result = "True" -> "proceed"
      [] result = "False" ->
            IF h \in ServiceHandlers THEN "login_failed" ELSE "IntegrationError"
      [] OTHER -> result

\* Every handler going straight to its vendor write.
after_login_write(h) == "write"

\* The step of a handler after a successful login.
after_login(h) ==
    CASE h = "handle_upload_activity" -> "file"
      [] h = "set_active_gear" -> "lookup"
      [] OTHER -> "write"

\* The gear of the user and the activity types, by uuid and typeId.
Gears == 1..MaxGear
ActivityTypeIds == {1, 2}
\* get_gear_defaults as set_active_gear filters it (lines 539-545): the gear
\* other than `uuid` the vendor lists for the activity type, in the vendor's order.
RECURSIVE to_deactivate_from(_, _, _, _)
to_deactivate_from(defaults, type, uuid, g) ==
    IF g > MaxGear THEN <<>>
    ELSE (IF <<type, g>> \in defaults /\ g # uuid THEN <<g>> ELSE <<>>)
            \o to_deactivate_from(defaults, type, uuid, g + 1)
\* The filter keeping nothing: no gear is unset before this one is set.
to_deactivate_none(defaults, type, uuid) == <<>>

to_deactivate(defaults, type, uuid) == to_deactivate_from(defaults, type, uuid, 1)

\* The vendor's set_gear_default(activity_type_id, uuid, default).
set_gear_default(defaults, type, uuid, default) ==
    IF default THEN defaults \cup {<<type, uuid>>} ELSE defaults \ {<<type, uuid>>}

ServiceIdle ==
    /\ svc_handler = "none"
    /\ svc_pc = "idle"
    /\ svc_login = "none"
    /\ svc_calls = <<>>
    /\ svc_error = "none"
    /\ svc_setting = DEFAULT
    /\ svc_type = 1
    /\ svc_uuid = 1
    /\ svc_todo = <<>>
    /\ srv_defaults = {}

\* The invocation ends raising `error`.
Raise(error) ==
    /\ svc_pc' = "done"
    /\ svc_error' = error

\* The host dispatches a service call to its handler.  A handler of services.py
\* starts with _get_coordinator (lines 72-89), which raises when no entry is
\* configured or the entry is not loaded.
Invoke ==
    /\ svc_pc \in {"idle", "done"}
    /\ \E h \in Handlers, loaded \in {"loaded", "no_integration_configured",
                                      "integration_not_loaded"},
          setting \in Settings, type \in ActivityTypeIds, uuid \in Gears :
        /\ h \notin ServiceHandlers => loaded = "loaded"
        /\ h # "set_active_gear" => setting = DEFAULT /\ type = 1 /\ uuid = 1
        /\ svc_handler' = h
        /\ svc_setting' = setting
        /\ svc_type' = type
        /\ svc_uuid' = uuid
        /\ svc_login' = "none"
        /\ svc_calls' = <<>>
        /\ svc_todo' = <<>>
        /\ IF loaded = "loaded"
           THEN svc_pc' = "login" /\ svc_error' = "none"
           ELSE Raise(loaded)
    /\ UNCHANGED srv_defaults

\* `await coordinator.async_login()` and the test of its result; the handlers
\* of services.py use entry.runtime_data, the sensors the coordinator of
\* hass.data.
ServiceLogin ==
    /\ svc_pc = "login"
    /\ \E outcome \in Outcomes :
        LET r == IF svc_handler \in ServiceHandlers
                 THEN async_login(outcome, entry_has_token)
                 ELSE async_login_init(outcome, entry_has_token)
        IN
        /\ svc_login' = r
        /\ svc_calls' = IF entry_has_token THEN Append(svc_calls, "login") ELSE svc_calls
        /\ IF login_gate(svc_handler, r) = "proceed"
           THEN svc_pc' = after_login(svc_handler) /\ UNCHANGED svc_error
           ELSE Raise(login_gate(svc_handler, r))
    /\ UNCHANGED <<svc_handler, svc_setting, svc_type, svc_uuid, svc_todo, srv_defaults>>

\* handle_upload_activity: `if not os.path.isfile(file_path)` (lines 225-232).
CheckFile ==
    /\ svc_pc = "file"
    /\ \E isfile \in BOOLEAN :
        IF isfile THEN svc_pc' = "write" /\ UNCHANGED svc_error
        ELSE Raise("file_not_found")
    /\ UNCHANGED <<svc_handler, svc_login, svc_calls, svc_setting, svc_type, svc_uuid,
                   svc_todo, srv_defaults>>

\* The vendor write of a handler with one write call.
ServiceWrite ==
    /\ svc_pc = "write"
    /\ \E outcome \in Outcomes :
        /\ svc_calls' = Append(svc_calls, write_method(svc_handler))
        /\ IF outcome = "ok" THEN svc_pc' = "done" /\ UNCHANGED svc_error
           ELSE Raise(write_error(svc_handler))
    /\ UNCHANGED <<svc_handler, svc_login, svc_setting, svc_type, svc_uuid, svc_todo,
                   srv_defaults>>

\* set_active_gear: activity_type_id is looked up in coordinator.data
\* (lines 521-526); next(filter(...)) raises StopIteration for an unknown type.
GearLookup ==
    /\ svc_pc = "lookup"
    /\ \E found \in BOOLEAN :
        IF ~found THEN Raise("StopIteration")
        ELSE /\ svc_pc' = IF svc_setting # ONLY_THIS_AS_DEFAULT THEN "set" ELSE "defaults"
             /\ UNCHANGED svc_error
    /\ UNCHANGED <<svc_handler, svc_login, svc_calls, svc_setting, svc_type, svc_uuid,
                   svc_todo, srv_defaults>>

\* set_active_gear: get_gear_defaults and the filter to_deactivate (lines 535-545).
GearReadDefaults ==
    /\ svc_pc = "defaults"
    /\ \E outcome \in Outcomes :
        /\ svc_calls' = Append(svc_calls, "get_gear_defaults")
        /\ IF outcome = "ok"
           THEN /\ svc_todo' = to_deactivate(srv_defaults, svc_type, svc_uuid)
                /\ svc_pc' = IF svc_todo' = <<>> THEN "set" ELSE "unset"
                /\ UNCHANGED svc_error
           ELSE Raise(propagated(outcome)) /\ UNCHANGED svc_todo
    /\ UNCHANGED <<svc_handler, svc_login, svc_setting, svc_type, svc_uuid, srv_defaults>>

\* set_active_gear: one set_gear_default(activity_type_id, uuid, False) of the
\* loop over to_deactivate (lines 547-553).
GearUnset ==
    /\ svc_pc = "unset"
    /\ \E outcome \in Outcomes :
        /\ svc_calls' = Append(svc_calls, "set_gear_default")
        /\ IF outcome = "ok"
           THEN /\ srv_defaults' =
                     set_gear_default(srv_defaults, svc_type, Head(svc_todo), FALSE)
                /\ svc_todo' = Tail(svc_todo)
                /\ svc_pc' = IF svc_todo' = <<>> THEN "set" ELSE "unset"
                /\ UNCHANGED svc_error
           ELSE Raise(propagated(outcome)) /\ UNCHANGED <<svc_todo, srv_defaults>>
    /\ UNCHANGED <<svc_handler, svc_login, svc_setting, svc_type, svc_uuid>>

\* set_active_gear: set_gear_default for this gear: True after the loop
\* (lines 554-559), `setting == ServiceSetting.DEFAULT` otherwise (lines 527-533).
GearSet ==
    /\ svc_pc = "set"
    /\ \E outcome \in Outcomes :
        /\ svc_calls' = Append(svc_calls, "set_gear_default")
        /\ IF outcome = "ok"
           THEN /\ srv_defaults' =
                     set_gear_default(srv_defaults, svc_type, svc_uuid,
                                      svc_setting \in {ONLY_THIS_AS_DEFAULT, DEFAULT})
                /\ svc_pc' = "done"
                /\ UNCHANGED svc_error
           ELSE Raise(propagated(outcome)) /\ UNCHANGED srv_defaults
    /\ UNCHANGED <<svc_handler, svc_login, svc_setting, svc_type, svc_uuid, svc_todo>>

(***************************************************************************)
(* The config flow (config_flow.py, lines 32-221) and the host's registry  *)
(* of config entries.  One action is one step of a flow: the host calls    *)
(* the step's method with the user's input and gets a ConfigFlowResult.    *)
(***************************************************************************)
\* Two flows are in progress at a time (a finished flow's slot is taken by the
\* next flow): every interleaving of the steps of a pair of flows is followed.
FlowIds == {1, 2}
Usernames == {"alice", "bob"}

\* What self._api.login does: it returns a result (plain, or "needs_mfa") or
\* raises one of the vendor's failures, an HTTPError by status code, or
\* anything else.
LoginFailures ==
    {"conn", "auth", "rate", "http403", "http429", "http401", "http500", "Exception"}
LoginOutcomes == {"ok", "needs_mfa"} \cup LoginFailures
\* What self._api.resume_login does.
ResumeOutcomes == {"ok", "GarthException", "Exception"}

\* `if self._login_result1 == "needs_mfa"` (line 93).
needs_mfa_never(outcome) == FALSE
needs_mfa(outcome) == outcome = "needs_mfa"

\* The except clauses of _async_garmin_connect_login (lines 96-111): errors["base"],
\* or "none" when the login raised nothing.
login_errors_no_http(outcome) ==
    CASE outcome = "conn" -> "cannot_connect"
      [] outcome = "auth" -> "invalid_auth"
      [] outcome = "rate" -> "too_many_requests"
      [] outcome \in {"ok", "needs_mfa"} -> "none"
      [] OTHER -> "unknown"
login_errors(outcome) ==
    CASE outcome = "conn" -> "cannot_connect"
      [] outcome = "auth" -> "invalid_auth"
      [] outcome = "rate" -> "too_many_requests"
      [] outcome = "http403" -> "invalid_auth"
      [] outcome = "http429" -> "too_many_requests"
      [] outcome \in {"http401", "http500"} -> "cannot_connect"
      [] outcome \in {"ok", "needs_mfa"} -> "none"
      [] OTHER -> "unknown"

\* _async_garmin_connect_mfa_login (lines 126-139): only garth.exc.GarthException
\* is caught.
mfa_handler_raise(outcome) == IF outcome = "ok" THEN "create_entry" ELSE "raise"
mfa_handler(outcome) ==
    CASE outcome = "ok" -> "create_entry"
      [] outcome = "GarthException" -> "form"
      [] OTHER -> "raise"

\* `await self.async_set_unique_id(self._username)` (line 151): the host gives
\* the entry of the domain that has this unique ID, or None (0 here).
existing_entry_none(es, unique_id) == 0
existing_entry(es, unique_id) ==
    IF \E i \in DOMAIN es : es[i].unique_id = unique_id
    THEN CHOOSE i \in DOMAIN es :
            /\ es[i].unique_id = unique_id
            /\ \A j \in DOMAIN es : es[j].unique_id = unique_id => i <= j
    ELSE 0

\* A flow that has not been started, or a fresh handler (__init__, lines 43-63).
NewFlow ==
    [step |-> "idle", username |-> "none", type |-> "none", errors |-> "none",
     call |-> "none", outcome |-> "none", rejected |-> 0]

FlowIdle ==
    /\ flows = [f \in FlowIds |-> NewFlow]
    /\ entries = <<>>
    /\ tokens = 0
    /\ last_token = [u \in Usernames |-> 0]

\* The step ends showing the form of `step` with `errors`.
ShowForm(f, step, errors) ==
    flows' = [flows EXCEPT ![f].step = step, ![f].type = "form", ![f].errors = errors]

\* async_step_user without input (lines 166-167): the host starts a flow from
\* the user interface; a finished flow's slot is taken by a fresh handler.
StartUser(f) ==
    /\ flows[f].step \in {"idle", "done"}
    /\ flows' = [flows EXCEPT ![f] = [NewFlow EXCEPT !.step = "user", !.type = "form"]]
    /\ UNCHANGED <<entries, tokens, last_token>>

\* async_step_reauth (lines 188-197) and async_step_reauth_confirm without
\* input (lines 207-216): the host starts the flow with the data of an entry
\* whose refresh signalled ConfigEntryAuthFailed.
StartReauth(f) ==
    /\ flows[f].step \in {"idle", "done"}
    /\ \E i \in DOMAIN entries :
          flows' = [flows EXCEPT ![f] =
                      [NewFlow EXCEPT !.step = "reauth_confirm", !.type = "form",
                                      !.username = entries[i].unique_id]]
    /\ UNCHANGED <<entries, tokens, last_token>>

\* _async_create_entry (lines 141-158) after the login that yielded the token
\* tokens + 1: the existing entry is updated and reloaded and the flow aborts
\* with reauth_successful, or a new entry is created.
CreateEntry(f, username, call, outcome) ==
    LET token == tokens + 1
        i == existing_entry(entries, username)
    IN  /\ tokens' = token
        /\ last_token' = [last_token EXCEPT ![username] = token]
        /\ IF i # 0
           THEN entries' = [entries EXCEPT ![i].token = token, ![i].reloads = @ + 1]
           ELSE entries' =
                   Append(entries, [unique_id |-> username, token |-> token, reloads |-> 0])
        /\ flows' = [flows EXCEPT ![f].step = "done",
                                  ![f].type = IF i # 0 THEN "abort" ELSE "create_entry",
                                  ![f].errors = "none",
                                  ![f].username = username,
                                  ![f].call = call,
                                  ![f].outcome = outcome]

\* async_step_user / async_step_reauth_confirm with the user's input (lines
\* 169-172, 218-221) and _async_garmin_connect_login (lines 65-118).
SubmitLogin(f) ==
    /\ flows[f].step \in {"user", "reauth_confirm"}
    /\ \E username \in Usernames, outcome \in LoginOutcomes :
        IF needs_mfa(outcome)
        THEN \* async_step_mfa without input shows the mfa form (lines 180-181)
             /\ flows' = [flows EXCEPT ![f].step = "mfa", ![f].type = "form",
                                       ![f].errors = "none", ![f].username = username,
                                       ![f].call = "login", ![f].outcome = outcome]
             /\ UNCHANGED <<entries, tokens, last_token>>
        ELSE IF login_errors(outcome) # "none"
        THEN /\ flows' = [flows EXCEPT ![f].type = "form",
                                       ![f].errors = login_errors(outcome),
                                       ![f].username = username,
                                       ![f].call = "login", ![f].outcome = outcome]
             /\ UNCHANGED <<entries, tokens, last_token>>
        ELSE /\ tokens < MaxLogins
             /\ CreateEntry(f, username, "login", outcome)

\* async_step_mfa with the user's code (lines 183-186) and
\* _async_garmin_connect_mfa_login (lines 120-139).
SubmitMfa(f) ==
    /\ flows[f].step = "mfa"
    /\ \E outcome \in ResumeOutcomes :
        CASE mfa_handler(outcome) = "create_entry" ->
                /\ tokens < MaxLogins
                /\ CreateEntry(f, flows[f].username, "resume_login", outcome)
          [] mfa_handler(outcome) = "form" ->
                /\ flows[f].rejected < MaxRejected
                /\ flows' = [flows EXCEPT ![f].type = "form",
                                          ![f].errors = "invalid_mfa_code",
                                          ![f].call = "resume_login",
                                          ![f].outcome = outcome,
                                          ![f].rejected = @ + 1]
                /\ UNCHANGED <<entries, tokens, last_token>>
          [] OTHER ->
                \* the exception leaves the step: the flow stays where it is
                /\ flows' = [flows EXCEPT ![f].type = "raise", ![f].errors = "none",
                                          ![f].call = "resume_login",
                                          ![f].outcome = outcome]
                /\ UNCHANGED <<entries, tokens, last_token>>

(***************************************************************************)
(* The sensor entities (sensor.py GarminConnectSensor, sensor_descriptions *)
(* BODY_COMPOSITION_SENSORS).  A float is written as an integer count of   *)
(* thousandths (the field of the API) or of hundredths (the value shown).  *)
(***************************************************************************)
\* Refreshes followed for one sensor.
MaxRefreshes == 4

PyFloat(n) == [kind |-> "float", value |-> n]

\* round(x, 2) of x given in thousandths, in hundredths: Python rounds a tie
\* to the even neighbour.
round2(thousandths) ==
    LET q == thousandths \div 10
        r == thousandths % 10
    IN  IF r > 5 \/ (r = 5 /\ q % 2 = 1) THEN q + 1 ELSE q

\* The two forms of description in BODY_COMPOSITION_SENSORS: "weight" has a
\* value_fn, "bmi" goes through the legacy extraction; both set preserve_value.
SensorKeys == {"weight", "bmi"}

entity_description(key) ==
    [key |-> key, has_value_fn |-> (key = "weight"), preserve_value |-> TRUE]

\* The field of coordinator.data as the API gave it: None, or a number
\* (weight in grams, bmi in thousandths).
FieldValues ==
    [weight : {PyNone, PyFloat(0), PyFloat(70500), PyFloat(82346)},
     bmi    : {PyNone, PyFloat(23104), PyFloat(24755)}]

truthy(v) == v # PyNone /\ v.value # 0

\* value_fn of "weight": round(data.get("weight", 0) / 1000, 2) if
\* data.get("weight") else None.  Grams are thousandths of the kilograms shown.
value_fn(data) ==
    IF truthy(data.weight) THEN PyFloat(round2(data.weight.value)) ELSE PyNone

\* GarminConnectSensor.native_value: nothing in it reads preserve_value.
native_value(description, data) ==
    IF data = PyNone THEN PyNone
    ELSE IF description.has_value_fn THEN value_fn(data)
    ELSE LET value == data[description.key]
         IN  IF value = PyNone THEN PyNone ELSE PyFloat(round2(value.value))

SensorIdle ==
    /\ coordinator_data = PyNone
    /\ state = [k \in SensorKeys |-> PyNone]
    /\ last_known = [k \in SensorKeys |-> PyNone]
    /\ refreshes = 0

\* A successful refresh: the coordinator stores the new snapshot and every
\* entity writes the state its native_value gives.
Refresh ==
    /\ refreshes < MaxRefreshes
    /\ \E data \in FieldValues :
        /\ coordinator_data' = data
        /\ state' = [k \in SensorKeys |-> native_value(entity_description(k), data)]
    /\ last_known' =
        [k \in SensorKeys |-> IF state'[k] # PyNone THEN state'[k] ELSE last_known[k]]
    /\ refreshes' = refreshes + 1

(***************************************************************************)
(* The midnight fallback of the daily summary (coordinator.py 120-139).    *)
(***************************************************************************)
FallbackIdle ==
    /\ current_hour = 12
    /\ today_summary = PyNone
    /\ yesterday_summary = PyNone
    /\ summary = PyNone
    /\ summary_calls = <<>>
    /\ fallback_pc = "idle"

(***************************************************************************)
(* The parts at rest: no call of async_login, no entry set up, no badge    *)
(* computation, no options stored.                                         *)
(***************************************************************************)
EntryIds == {"e1", "e2"}

\* The host's record of an entry: its state, and what the login, the first
\* refresh and the call itself gave in its last setup.
NewEntry ==
    [state |-> "not_loaded", login |-> "none", refresh |-> "none", returned |-> "none"]

LoginIdle ==
    /\ login_copy = "coordinator"
    /\ login_has_token = TRUE
    /\ login_outcome = "ok"
    /\ login_returned = "none"
    /\ login_calls = <<>>

SetupIdle ==
    /\ hass_data = {}
    /\ entry_state = [e \in EntryIds |-> NewEntry]
    /\ forwarded = {}
    /\ setup_calls = 0

LevelIdle ==
    /\ badges = <<>>
    /\ user_points = 0
    /\ user_level = 0
    /\ level_pc = "idle"

OptionIdle ==
    /\ options = PyNone
    /\ submitted = PyNone
    /\ entities = {}
    /\ option_steps = <<>>

RestIdle == LoginIdle /\ SetupIdle /\ LevelIdle /\ OptionIdle

(***************************************************************************)
(* The specifications.                                                     *)
(***************************************************************************)
\* The config entry holds a token, or lost it (`CONF_TOKEN not in self.entry.data`).
EntryInit == entry_has_token \in BOOLEAN

CycleInit == EntryInit /\ AlarmIdle /\ CycleIdle /\ ServiceIdle /\ SnapshotIdle /\ PoolIdle /\ FlowIdle /\ RestIdle /\ SensorIdle /\ FallbackIdle

CycleNext ==
    \/ StartCycle /\ UNCHANGED exceptCycle
    \/ FetchMain /\ UNCHANGED exceptCycle
    \/ Relogin /\ UNCHANGED exceptCycle
    \/ FetchSecond /\ UNCHANGED exceptCycle
    \/ FetchGear /\ UNCHANGED exceptCycle
    \/ ReturnSnapshot /\ UNCHANGED exceptCycle

SpecCycle == CycleInit /\ [][CycleNext]_vars

ServiceInit == EntryInit /\ AlarmIdle /\ ServiceIdle /\ CycleIdle /\ SnapshotIdle /\ PoolIdle /\ FlowIdle /\ RestIdle /\ SensorIdle /\ FallbackIdle

ServiceNext ==
    \/ Invoke /\ UNCHANGED exceptService
    \/ ServiceLogin /\ UNCHANGED exceptService
    \/ CheckFile /\ UNCHANGED exceptService
    \/ ServiceWrite /\ UNCHANGED exceptService
    \/ GearLookup /\ UNCHANGED exceptService
    \/ GearReadDefaults /\ UNCHANGED exceptService
    \/ GearUnset /\ UNCHANGED exceptService
    \/ GearSet /\ UNCHANGED exceptService

SpecService == ServiceInit /\ [][ServiceNext]_vars

SnapshotInit ==
    /\ SnapshotEntry /\ entry_has_token = TRUE
    /\ AlarmIdle /\ CycleIdle /\ ServiceIdle /\ PoolIdle /\ FlowIdle /\ RestIdle /\ SensorIdle /\ FallbackIdle

SnapshotNext == ExtractAndReturn /\ UNCHANGED exceptSnapshot

SpecSnapshot == SnapshotInit /\ [][SnapshotNext]_vars

(***************************************************************************)
(* The refresh cycle and a service handler as two tasks of the host's      *)
(* event loop.  `await self.hass.async_add_executor_job(f, ...)` hands f   *)
(* to the worker-thread pool and suspends the task until f has ended; the  *)
(* other task may run meanwhile.  Neither coordinator.py nor services.py   *)
(* takes a lock around a vendor call.  The steps of the two tasks are the  *)
(* actions of SpecCycle and SpecService, each split into the issue of its  *)
(* vendor call and the resumption of the task with the call's outcome.     *)
(* To keep the product of the two tasks small, the handlers are those with *)
(* one write call, and of the failures of the cycle's calls only a rate    *)
(* limit in the first block and a refused get_gear_stats are followed.     *)
(***************************************************************************)
\* The vendor call the cycle awaits next.
cycle_call ==
    CASE cycle_block = "main" -> MainCalls[cycle_i]
      [] cycle_block = "relogin" -> "login"
      [] cycle_block = "second" -> SecondCalls[cycle_i]
      [] cycle_block = "gear" -> GearCalls[cycle_i]
      [] OTHER -> "none"
\* The vendor call the handler awaits next.
svc_call ==
    CASE svc_pc = "login" -> "login"
      [] svc_pc = "write" -> write_method(svc_handler)
      [] svc_pc = "defaults" -> "get_gear_defaults"
      [] svc_pc \in {"unset", "set"} -> "set_gear_default"
      [] OTHER -> "none"

\* The jobs one await of the cycle hands to the pool: asyncio.gather of one
\* get_gear_stats per piece of gear (coordinator.py 340-347), else one job.
jobs_two(call, n_gear) == 2
jobs(call, n_gear) == IF call = "get_gear_stats" THEN n_gear ELSE 1
issuer(call) == IF call = "get_gear_stats" THEN "gather" ELSE "cycle"

exceptCycleTask == <<alarmVars, svcVars, snapVars, svc_await, flowVars, sensorVars, fallbackVars,
      restVars>>
exceptServiceTask ==
    <<alarmVars, entry_has_token, cycleVars, snapVars, cycle_await, flowVars, sensorVars, fallbackVars,
      restVars>>

\* `n` jobs of `i` have ended.
Ended(i, n) == in_flight' = [in_flight EXCEPT ![i] = @ - n]

\* The cycle hands its next call to the pool and is suspended.
CycleIssue ==
    /\ cycle_call # "none"
    /\ ~cycle_await
    /\ cycle_await' = TRUE
    /\ in_flight' =
          [in_flight EXCEPT ![issuer(cycle_call)] = @ + jobs(cycle_call, gear)]
    /\ UNCHANGED <<entry_has_token, cycleVars>>

\* The cycle is resumed with the outcome of its call.
ResumeMain ==
    /\ cycle_await /\ cycle_block = "main"
    /\ FetchMain
    /\ main_fault' \in {"none", "rate"} /\ swallowed' = {}
    /\ Ended("cycle", 1) /\ cycle_await' = FALSE

ResumeRelogin ==
    /\ cycle_await /\ cycle_block = "relogin"
    /\ Relogin
    /\ Ended("cycle", 1) /\ cycle_await' = FALSE

ResumeSecond ==
    /\ cycle_await /\ cycle_block = "second"
    /\ FetchSecond
    /\ late_fault' = NoFault /\ swallowed' = {}
    /\ Ended("cycle", 1) /\ cycle_await' = FALSE

\* gather returns when every job has ended, or raises as soon as one job
\* raises: the other jobs run on in the pool.
ResumeGear ==
    /\ cycle_await /\ cycle_block = "gear"
    /\ FetchGear
    /\ late_fault' \in {NoFault, [call |-> "get_gear_stats", kind |-> "auth"]}
    /\ IF cycle_call # "get_gear_stats" THEN Ended("cycle", 1)
       ELSE IF late_fault' = NoFault THEN Ended("gather", gear)
       ELSE Ended("gather", 1)
    /\ cycle_await' = FALSE

\* A get_gear_stats job that gather no longer waits for ends.
GatherJobEnds ==
    /\ in_flight["gather"] > 0
    /\ ~(cycle_await /\ cycle_call = "get_gear_stats")
    /\ Ended("gather", 1)
    /\ UNCHANGED <<entry_has_token, cycleVars, cycle_await>>

\* The steps of the cycle that await nothing; one cycle runs against the
\* invocations of the handlers.
CycleStep ==
    /\ (StartCycle /\ cycles = 0) \/ ReturnSnapshot
    /\ UNCHANGED <<in_flight, cycle_await>>

\* The handler hands its next call to the pool and is suspended.
ServiceIssue ==
    /\ svc_call # "none"
    /\ ~svc_await
    /\ svc_await' = TRUE
    /\ in_flight' = [in_flight EXCEPT !["service"] = @ + 1]
    /\ UNCHANGED svcVars

\* The handler is resumed with the outcome of its call.
ResumeService ==
    /\ svc_await
    /\ ServiceLogin \/ ServiceWrite
    /\ Ended("service", 1) /\ svc_await' = FALSE

\* The steps of a handler that await nothing.
ServiceStep ==
    /\ (Invoke /\ svc_handler' # "set_active_gear") \/ CheckFile
    /\ UNCHANGED <<in_flight, svc_await>>

TasksInit ==
    /\ entry_has_token = TRUE
    /\ AlarmIdle /\ CycleIdle /\ ServiceIdle /\ SnapshotIdle /\ PoolIdle /\ FlowIdle /\ RestIdle /\ SensorIdle /\ FallbackIdle

TasksNext ==
    \/ CycleIssue /\ UNCHANGED exceptCycleTask
    \/ ResumeMain /\ UNCHANGED exceptCycleTask
    \/ ResumeRelogin /\ UNCHANGED exceptCycleTask
    \/ ResumeSecond /\ UNCHANGED exceptCycleTask
    \/ ResumeGear /\ UNCHANGED exceptCycleTask
    \/ GatherJobEnds /\ UNCHANGED exceptCycleTask
    \/ CycleStep /\ UNCHANGED exceptCycleTask
    \/ ServiceIssue /\ UNCHANGED exceptServiceTask
    \/ ResumeService /\ UNCHANGED exceptServiceTask
    \/ ServiceStep /\ UNCHANGED exceptServiceTask

SpecTasks == TasksInit /\ [][TasksNext]_vars

exceptFlow ==
    <<alarmVars, entry_has_token, cycleVars, svcVars, snapVars, poolVars, sensorVars,
      fallbackVars,
      restVars>>

FlowInit ==
    /\ entry_has_token = TRUE
    /\ AlarmIdle /\ CycleIdle /\ ServiceIdle /\ SnapshotIdle /\ PoolIdle /\ FlowIdle /\ RestIdle /\ SensorIdle /\ FallbackIdle

FlowNext ==
    \/ \E f \in FlowIds : StartUser(f) /\ UNCHANGED exceptFlow
    \/ \E f \in FlowIds : StartReauth(f) /\ UNCHANGED exceptFlow
    \/ \E f \in FlowIds : SubmitLogin(f) /\ UNCHANGED exceptFlow
    \/ \E f \in FlowIds : SubmitMfa(f) /\ UNCHANGED exceptFlow

SpecFlow == FlowInit /\ [][FlowNext]_vars

(***************************************************************************)
(* The arguments calculate_next_active_alarms is applied to.               *)
(***************************************************************************)
AlarmModes == {"ON", "OFF"}
\* alarmTime is a minute of the day, 0..1439
AlarmTimes == {0, 480, 1439}
\* every key of DAY_TO_NUMBER, "ONCE", and a day that is no key ("MONDAY", the
\* day of test_calculate_next_active_alarms_off)
AlarmDays == DOMAIN DAY_TO_NUMBER \cup {"ONCE", "MONDAY"}
SampleDays == {"ONCE", "Mo", "Su"}

SeqsUpTo(S, n) == UNION {[1..k -> S] : k \in 0..n}

Alarm(m, ds, t) == [alarmMode |-> m, alarmDays |-> ds, alarmTime |-> t]
\* an alarm on any one day
OneDayAlarms ==
    {Alarm(m, <<d>>, t) : m \in AlarmModes, d \in AlarmDays, t \in AlarmTimes}
\* an alarm on up to MaxAlarmDays sample days
ManyDayAlarms ==
    {Alarm(m, ds, t) : m \in AlarmModes, ds \in SeqsUpTo(SampleDays, MaxAlarmDays),
                       t \in AlarmTimes}
\* an alarm on one sample day
SampleAlarms ==
    {Alarm(m, <<d>>, t) : m \in AlarmModes, d \in SampleDays, t \in AlarmTimes}

AlarmLists ==
    {<<a>> : a \in OneDayAlarms \cup ManyDayAlarms}
        \cup SeqsUpTo(SampleAlarms, MaxAlarms)

AlarmArguments ==
    {[isNone |-> TRUE, items |-> <<>>]}
        \cup {[isNone |-> FALSE, items |-> l] : l \in AlarmLists}

\* the current time: a day, a minute of the day and a second
NowMinutes == {0, 480, 1439}
NowSeconds == {0, 30}
NowValues ==
    {d * SecondsPerDay + m * SecondsPerMinute + s :
        d \in 0..MaxDay, m \in NowMinutes, s \in NowSeconds}

AlarmEntry ==
    /\ alarms \in AlarmArguments
    /\ time_zone \in TimeZones
    /\ now \in NowValues
    /\ now_fold = 0
    /\ next_alarms = PyNone
    /\ alarm_pc = "call"

\* One call of calculate_next_active_alarms(alarms, time_zone).
CalculateNextActiveAlarms ==
    /\ alarm_pc = "call"
    /\ next_alarms' = calculate_next_active_alarms(alarms, time_zone, now)
    /\ alarm_pc' = "returned"
    /\ UNCHANGED <<alarms, time_zone, now, now_fold>>
    /\ UNCHANGED exceptAlarm

AlarmNext == CalculateNextActiveAlarms

AlarmInit ==
    AlarmEntry /\ entry_has_token = TRUE /\ CycleIdle /\ ServiceIdle /\ SnapshotIdle /\ PoolIdle /\ FlowIdle /\ RestIdle /\ SensorIdle /\ FallbackIdle

SpecAlarm == AlarmInit /\ [][AlarmNext]_vars


(***************************************************************************)
(* Properties of calculate_next_active_alarms.                             *)
(***************************************************************************)
\* The (alarm, day) pairs of the ON alarms of the argument.
OnPairs ==
    {p \in (1..Len(alarms.items)) \X (1..(MaxAlarmDays + 1)) :
        /\ alarms.items[p[1]].alarmMode = "ON"
        /\ p[2] <= Len(alarms.items[p[1]].alarmDays)}
PairDay(p) == alarms.items[p[1]].alarmDays[p[2]]
PairTime(p) == alarms.items[p[1]].alarmTime
\* The call returned a value (no day of an ON alarm raised KeyError).
Returned ==
    /\ alarm_pc = "returned"
    /\ \A p \in OnPairs : PairDay(p) = "ONCE" \/ PairDay(p) \in DOMAIN DAY_TO_NUMBER
\* The timestamps of a returned value: those of a list, none otherwise.
Timestamps(r) == IF r.kind = "list" THEN r.value ELSE <<>>
\* The isoformat string of minute t of day d in the zone of the call.
StringAt(d, t) == <<d, t \div 60, t % 60, 0, utcoffset(time_zone)>>
\* The wall-clock second an isoformat string names.
WallClock(ts) == ts[1] * 86400 + ts[2] * 3600 + ts[3] * 60 + ts[4]
Today == now \div 86400
\* The day a ONCE alarm at minute t is due: today unless t is already past.
OnceDay(t) == IF Today * 86400 + t * 60 >= now THEN Today ELSE Today + 1
\* The day a weekly alarm on day D at minute t is due: this week's Monday plus
\* D's offset, a week later if that moment is already past.
WeekStart == (Today \div 7) * 7
WeeklyDay(D, t) ==
    LET d == WeekStart + DAY_TO_NUMBER[D] - 1
    IN  IF d * 86400 + t * 60 < now THEN d + 7 ELSE d
ExpectedString(p) ==
    IF PairDay(p) = "ONCE" THEN StringAt(OnceDay(PairTime(p)), PairTime(p))
    ELSE StringAt(WeeklyDay(PairDay(p), PairTime(p)), PairTime(p))
InResult(ts) ==
    /\ next_alarms.kind = "list"
    /\ \E k \in 1..Len(next_alarms.value) : next_alarms.value[k] = ts

\* C1: for an empty or None alarm list the function returns the empty list [],
\* whatever the time zone and the current time.
C1_EmptyOrNoneReturnsEmptyList ==
    alarm_pc = "returned" /\ (alarms.isNone \/ alarms.items = <<>>)
        => next_alarms = PyList(<<>>)
C1_Witness ==
    /\ alarm_pc = "returned"
    /\ alarms.isNone
    /\ time_zone = "Asia/Tokyo"
    /\ now = 3 * 86400 + 480 * 60 + 30
    /\ next_alarms = PyList(<<>>)

\* C2 (as amended): an ON alarm on "ONCE" at minute t is projected to today at t
\* if that moment is not earlier than now (it is now or in the future), and to
\* tomorrow at t if it is already past.
C2_OnceTodayUnlessPast ==
    Returned =>
        \A p \in OnPairs : PairDay(p) = "ONCE" =>
            LET t == PairTime(p)
            IN  /\ Today * 86400 + t * 60 >= now => InResult(StringAt(Today, t))
                /\ Today * 86400 + t * 60 < now => InResult(StringAt(Today + 1, t))
                /\ Len(alarms.items) = 1 /\ Len(alarms.items[1].alarmDays) = 1
                     => next_alarms.value = <<StringAt(OnceDay(t), t)>>
\* C2 as stated: today only if the moment is still in the future, tomorrow if
\* it is now or already past.
C2_OnceTomorrowIfNowOrPast ==
    Returned =>
        \A p \in OnPairs : PairDay(p) = "ONCE" =>
            LET t == PairTime(p)
            IN  /\ Today * 86400 + t * 60 > now => InResult(StringAt(Today, t))
                /\ Today * 86400 + t * 60 <= now => InResult(StringAt(Today + 1, t))
\* An alarm due at this very second stays on today.
C2_Witness ==
    /\ Returned
    /\ Len(alarms.items) = 1
    /\ alarms.items[1] = Alarm("ON", <<"ONCE">>, 480)
    /\ now = 2 * 86400 + 480 * 60
    /\ next_alarms = PyList(<<StringAt(2, 480)>>)

\* C3: an ON alarm on weekday D (a key of DAY_TO_NUMBER) at minute t is projected
\* to 00:00 of this week's Monday plus D's day offset plus t minutes, and exactly
\* seven days later if that moment is already past now.
C3_WeeklyFromWeekStart ==
    Returned =>
        \A p \in OnPairs : PairDay(p) \in DOMAIN DAY_TO_NUMBER =>
            LET t == PairTime(p)
                moment == (WeekStart + DAY_TO_NUMBER[PairDay(p)] - 1) * 86400 + t * 60
                due == IF moment < now THEN moment + 7 * 86400 ELSE moment
            IN  /\ InResult(StringAt(due \div 86400, t))
                /\ Len(alarms.items) = 1 /\ Len(alarms.items[1].alarmDays) = 1
                     => next_alarms.value = <<StringAt(due \div 86400, t)>>
\* On a Sunday, a Monday alarm is due the next day, a week after this week's Monday.
C3_Witness ==
    /\ Returned
    /\ Len(alarms.items) = 1
    /\ alarms.items[1] = Alarm("ON", <<"Mo">>, 480)
    /\ now = 6 * 86400 + 1439 * 60 + 30
    /\ next_alarms = PyList(<<StringAt(7, 480)>>)

\* C4: the returned list is sorted ascending in time and holds one timestamp for
\* every (ON alarm, day of that alarm) pair, none dropped and none added.
C4_SortedOnePerPair ==
    Returned /\ OnPairs # {} =>
        /\ next_alarms.kind = "list"
        /\ \A k \in 1..(Len(next_alarms.value) - 1) :
              WallClock(next_alarms.value[k]) <= WallClock(next_alarms.value[k + 1])
        /\ Len(next_alarms.value) = Cardinality(OnPairs)
        /\ \A p \in OnPairs :
              Cardinality({k \in 1..Len(next_alarms.value) :
                              next_alarms.value[k] = ExpectedString(p)})
                = Cardinality({q \in OnPairs : ExpectedString(q) = ExpectedString(p)})
\* Two ON alarms given latest first come back earliest first.
C4_Witness ==
    /\ Returned
    /\ Len(alarms.items) = 2
    /\ alarms.items[1] = Alarm("ON", <<"Su">>, 0)
    /\ alarms.items[2] = Alarm("ON", <<"ONCE">>, 1439)
    /\ now = 480 * 60
    /\ next_alarms = PyList(<<StringAt(0, 1439), StringAt(6, 0)>>)

\* C5: an OFF alarm contributes no occurrence: the timestamps returned are those
\* of the ON alarms alone, so they are the timestamps returned for the list with
\* its OFF alarms removed.
OnAlarmsOnly ==
    [isNone |-> alarms.isNone,
     items |-> SelectSeq(alarms.items, LAMBDA a : a.alarmMode = "ON")]
C5_OffAlarmsContributeNothing ==
    alarm_pc = "returned" =>
        /\ Timestamps(next_alarms)
             = Timestamps(calculate_next_active_alarms(OnAlarmsOnly, time_zone, now))
        /\ Returned => Len(Timestamps(next_alarms)) = Cardinality(OnPairs)
C5_Witness ==
    /\ Returned
    /\ Len(alarms.items) = 2
    /\ alarms.items[1] = Alarm("OFF", <<"ONCE">>, 0)
    /\ alarms.items[2] = Alarm("ON", <<"Mo">>, 480)
    /\ Len(Timestamps(next_alarms)) = 1

\* C6: for a non-empty alarm list whose alarms are all OFF the function returns
\* the empty list [].
C6_AllOffReturnsEmptyList ==
    /\ alarm_pc = "returned"
    /\ ~alarms.isNone
    /\ alarms.items # <<>>
    /\ \A i \in 1..Len(alarms.items) : alarms.items[i].alarmMode = "OFF"
    => next_alarms = PyList(<<>>)

(***************************************************************************)
(* The write-back actions (SpecService).                                   *)
(***************************************************************************)
\* The invocation issued a vendor write call.
Wrote == \E k \in DOMAIN svc_calls : svc_calls[k] \in WriteMethods

\* C7: every write-back action performs coordinator.async_login first and
\* issues a vendor write call only if it returned true: a write call in an
\* invocation comes after its login call and after async_login returned True,
\* no step between the login and the write is reached otherwise, and when
\* async_login returned False the invocation has ended raising its login error
\* without any write call.
C7_WriteOnlyAfterLogin ==
    /\ \A k \in DOMAIN svc_calls :
          svc_calls[k] \in WriteMethods =>
              svc_login = "True" /\ k > 1 /\ svc_calls[1] = "login"
    /\ svc_pc \in {"file", "lookup", "defaults", "unset", "set", "write"} =>
          svc_login = "True"
    /\ svc_login = "False" =>
          /\ svc_pc = "done"
          /\ svc_error \in {"login_failed", "IntegrationError"}
          /\ ~Wrote

\* set_active_gear with "set this as default, unset others" has logged in, read
\* the defaults, unset another gear and set this one.
C7_Witness ==
    /\ svc_handler = "set_active_gear"
    /\ svc_pc = "done"
    /\ svc_error = "none"
    /\ svc_login = "True"
    /\ svc_calls = <<"login", "get_gear_defaults", "set_gear_default", "set_gear_default">>

(***************************************************************************)
(* The refresh cycle (SpecCycle).                                          *)
(***************************************************************************)
CycleDone == cycle_block = "done"
\* A vendor call of the cycle raised the failure `kind`.
RaisedInCycle(kind) == main_fault = kind \/ late_fault.kind = kind \/ kind \in swallowed
\* The failing call of the second or third block is one of `calls`.
LateCallIn(calls) == \E k \in DOMAIN calls : late_fault.call = calls[k]
\* The cycle went through to its return statement.
ReachedReturn == cycle_result \in {"snapshot", "KeyError", "TypeError"}

\* C8 (as stated): an authentication failure of any vendor call of a cycle
\* makes the cycle signal ConfigEntryAuthFailed.
C8_AnyAuthFailureSignalsReauth ==
    CycleDone /\ RaisedInCycle("auth") => cycle_result = "ConfigEntryAuthFailed"

\* C8 (amended): an authentication failure of a call of the second or third
\* block ends the cycle with ConfigEntryAuthFailed; one of the first block is
\* followed by exactly one re-login, and the cycle then signals
\* ConfigEntryAuthFailed exactly when the re-login raised it or a later call
\* was refused (authentication error, or HTTP 401 in the second block); one
\* swallowed by the catch-all of an optional fetch does not end the cycle.
C8_AuthFailureByBlock ==
    CycleDone =>
        /\ late_fault.kind = "auth" => cycle_result = "ConfigEntryAuthFailed"
        /\ main_fault = "auth" =>
              /\ relogins = 1
              /\ cycle_result = "ConfigEntryAuthFailed" <=>
                    \/ login_result = "ConfigEntryAuthFailed"
                    \/ late_fault.kind = "auth"
                    \/ late_fault.kind = "http401" /\ LateCallIn(SecondCalls)
              /\ login_result = "False" => cycle_result = "UpdateFailed"
              /\ login_result = "True" /\ late_fault = NoFault => ReachedReturn
        /\ "auth" \in swallowed /\ main_fault = "none" /\ late_fault = NoFault =>
              ReachedReturn

\* get_gear_stats was refused and the cycle signalled ConfigEntryAuthFailed.
C8_Witness ==
    /\ CycleDone
    /\ late_fault = [call |-> "get_gear_stats", kind |-> "auth"]
    /\ cycle_result = "ConfigEntryAuthFailed"

\* C9 (as stated): a rate-limit failure of a vendor call of a cycle makes the
\* cycle a failed update (an exception to the host, not a returned value), and
\* the next cycle can start.
C9_RateLimitIsFailedUpdate ==
    CycleDone /\ RaisedInCycle("rate") => cycle_result \in Raises /\ CanStartCycle

\* C10 (as stated): a connectivity failure of any vendor call of a cycle makes
\* the cycle signal ConfigEntryNotReady.
C10_AnyConnectionFailureNotReady ==
    CycleDone /\ RaisedInCycle("conn") => cycle_result = "ConfigEntryNotReady"

\* C10 (amended): a connectivity failure of a call of the second or third
\* block ends the cycle with ConfigEntryNotReady; one of the first block is
\* followed by exactly one re-login, and the cycle then signals
\* ConfigEntryNotReady exactly when the re-login raised it or a later call
\* failed so (connectivity failure, or rate limit in the third block); one
\* swallowed by the catch-all of an optional fetch does not end the cycle.
C10_ConnectionFailureByBlock ==
    CycleDone =>
        /\ late_fault.kind = "conn" => cycle_result = "ConfigEntryNotReady"
        /\ main_fault = "conn" =>
              /\ relogins = 1
              /\ cycle_result = "ConfigEntryNotReady" <=>
                    \/ login_result = "ConfigEntryNotReady"
                    \/ late_fault.kind = "conn"
                    \/ late_fault.kind = "rate" /\ LateCallIn(GearCalls)
              /\ login_result = "False" => cycle_result = "UpdateFailed"
              /\ login_result = "True" /\ late_fault = NoFault => ReachedReturn
        /\ "conn" \in swallowed /\ main_fault = "none" /\ late_fault = NoFault =>
              ReachedReturn

\* get_hydration_data could not connect and the cycle signalled
\* ConfigEntryNotReady.
C10_Witness ==
    /\ CycleDone
    /\ late_fault = [call |-> "get_hydration_data", kind |-> "conn"]
    /\ cycle_result = "ConfigEntryNotReady"

\* C11: in a cycle a re-login is attempted at most once, and only after a call
\* of the first block raised an authentication, rate-limit or connectivity
\* failure; when the re-login does not succeed the cycle has failed (with
\* UpdateFailed when async_login returned False, else with the exception
\* async_login raised) and the last call it issued is the login (or, with no
\* token to log in with, the call that failed).
C11_ReloginOnceThenFail ==
    /\ relogins <= 1
    /\ cycle_block = "relogin" => main_fault \in VendorFailures /\ relogins = 0
    /\ relogins = 1 =>
          /\ main_fault \in VendorFailures
          /\ login_result # "none"
          /\ login_result # "True" =>
                /\ CycleDone
                /\ cycle_result =
                      IF login_result = "False" THEN "UpdateFailed" ELSE login_result
                /\ api_calls # <<>>
                /\ api_calls[Len(api_calls)] =
                      IF entry_has_token THEN "login" ELSE MainCalls[cycle_i]
    /\ relogins = 0 => login_result = "none"

\* get_sleep_data hit the rate limit, the re-login returned False and the cycle
\* failed with UpdateFailed right after the login call.
C11_Witness ==
    /\ CycleDone
    /\ relogins = 1
    /\ main_fault = "rate"
    /\ MainCalls[cycle_i] = "get_sleep_data"
    /\ login_result = "False"
    /\ cycle_result = "UpdateFailed"
    /\ api_calls[Len(api_calls)] = "login"

(***************************************************************************)
(* The extraction and the return statement (SpecSnapshot).                 *)
(***************************************************************************)
\* An optional sub-object provides the value read from it.
Provides(lookup) == IF lookup = "value" THEN "value" ELSE "None"

\* C12 (as stated): whatever the shape of the optional sub-objects (sleep, HRV,
\* endurance score, hill score, hydration: complete, missing keys, or absent),
\* when the rest of the fetched data is in order the cycle returns a snapshot in
\* which only the values derived from a deficient sub-object are absent or
\* unknown and every other field is present.
C12_DeficientSubObjectKeepsSnapshot ==
    (extract_pc = "returned" /\ fetched.body_has_total
        /\ fetched.fitnessage_data = "full") =>
        /\ snapshot.kind = "dict"
        /\ \A k \in DOMAIN SleepKeys :
              snapshot.value.sleep[k] =
                  Provides(sleep_lookup(fetched.sleep_data, SleepKeys[k]))
        /\ snapshot.value.hrvStatus =
              (IF fetched.hrv_data = "full" THEN "value" ELSE "default")
        /\ snapshot.value.enduranceScore =
              (IF fetched.endurance_data = "full" THEN "value" ELSE "default")
        /\ snapshot.value.hillScore =
              (IF fetched.hill_data = "full" THEN "value" ELSE "default")
        /\ snapshot.value.hydration =
              (IF fetched.hydration_data = "full" THEN "value" ELSE "None")
        /\ snapshot.value.totalAverage = "value"
        /\ snapshot.value.fitnessage = "value"

(***************************************************************************)
(* The two tasks and the worker-thread pool (SpecTasks).                   *)
(***************************************************************************)
\* The vendor calls running in the pool.
TotalInFlight == in_flight["cycle"] + in_flight["gather"] + in_flight["service"]

\* C13 (as stated): at every moment at most one vendor call is in flight,
\* unless all the calls in flight are the gathered per-gear lookups of the
\* cycle, whatever the interleaving of the cycle with the service handlers.
C13_OneCallInFlight ==
    TotalInFlight <= 1 \/ in_flight["cycle"] + in_flight["service"] = 0

\* C13 (amended): each task has at most one vendor call of its own in flight,
\* and it is suspended while that call runs; the only exception is the
\* per-gear lookups the cycle gathers, at most one per piece of gear.  (A call
\* of the handler may be in flight together with the calls of the cycle.)
C13_OneCallPerTask ==
    /\ in_flight["cycle"] <= 1
    /\ in_flight["service"] <= 1
    /\ in_flight["gather"] <= MaxGear
    /\ in_flight["cycle"] = 1 => cycle_await /\ cycle_call # "get_gear_stats"
    /\ in_flight["service"] = 1 => svc_await
    /\ (cycle_await /\ cycle_call = "get_gear_stats") =>
          in_flight["cycle"] = 0 /\ in_flight["gather"] = gear

\* get_hydration_data of the cycle and add_body_composition of a handler run
\* in the pool at the same time.
C13_Witness ==
    /\ cycle_await /\ cycle_call = "get_hydration_data"
    /\ svc_await /\ svc_call = "add_body_composition"
    /\ in_flight["cycle"] = 1
    /\ in_flight["service"] = 1

(***************************************************************************)
(* The config flow (SpecFlow).                                             *)
(***************************************************************************)
\* Flow f has just run a step that called `call`.
Stepped(f, call) == flows'[f] # flows[f] /\ flows'[f].call = call

\* The error code the failure kinds stand for.
ErrorCodeOf(outcome) ==
    CASE outcome \in {"auth", "http403"} -> "invalid_auth"
      [] outcome \in {"rate", "http429"} -> "too_many_requests"
      [] outcome \in {"conn", "http401", "http500"} -> "cannot_connect"
      [] OTHER -> "unknown"

\* C14: when the vendor login fails in the user or reauth_confirm step, the
\* step ends re-showing the form of the same step with the one error code of
\* the failure kind (authentication failure or HTTP 403: invalid_auth; rate
\* limit or HTTP 429: too_many_requests; connection failure or another HTTP
\* error: cannot_connect; anything else: unknown), and the registry of config
\* entries is left as it was.
C14_LoginFailureReshowsForm ==
    [][\A f \in FlowIds :
          (flows[f].step \in {"user", "reauth_confirm"} /\ Stepped(f, "login")
              /\ flows'[f].outcome \in LoginFailures) =>
              /\ flows'[f].type = "form"
              /\ flows'[f].step = flows[f].step
              /\ flows'[f].errors = ErrorCodeOf(flows'[f].outcome)
              /\ entries' = entries]_vars

\* A reauth flow whose login got HTTP 403 shows the reauth_confirm form again
\* with invalid_auth.
C14_Witness ==
    \E f \in FlowIds :
        /\ flows[f].step = "reauth_confirm"
        /\ flows[f].call = "login"
        /\ flows[f].outcome = "http403"
        /\ flows[f].type = "form"
        /\ flows[f].errors = "invalid_auth"

\* C15: a step of a flow creates or updates a config entry only when the
\* vendor login completed in that step (login returned without asking for MFA,
\* or resume_login returned in the mfa step); starting a flow only shows a
\* form; and a login that reports needs_mfa moves the flow to the mfa step and
\* leaves the entries as they were.
C15_EntryOnlyAfterLogin ==
    [][/\ entries' # entries =>
            \E f \in FlowIds :
                /\ flows'[f] # flows[f]
                /\ flows'[f].outcome = "ok"
                /\ flows'[f].step = "done"
                /\ \/ flows'[f].call = "login"
                         /\ flows[f].step \in {"user", "reauth_confirm"}
                   \/ flows'[f].call = "resume_login" /\ flows[f].step = "mfa"
                            /\ flows[f].outcome \in {"needs_mfa", "GarthException", "Exception"}
                /\ \A g \in FlowIds \ {f} : flows'[g] = flows[g]
       /\ \A f \in FlowIds :
            /\ (flows[f].step \in {"idle", "done"} /\ flows'[f] # flows[f]) =>
                  /\ flows'[f].type = "form"
                  /\ flows'[f].step \in {"user", "reauth_confirm"}
                  /\ flows'[f].errors = "none"
                  /\ entries' = entries
            /\ (flows'[f] # flows[f] /\ flows'[f].outcome = "needs_mfa") =>
                  /\ flows'[f].step = "mfa"
                  /\ flows'[f].type = "form"
                  /\ entries' = entries
            /\ (flows'[f].step = "mfa" /\ flows[f].step # "mfa") =>
                  flows'[f].outcome = "needs_mfa"]_vars

\* A flow went through the mfa step and created the entry of its user.
C15_Witness ==
    \E f \in FlowIds :
        /\ flows[f].step = "done"
        /\ flows[f].call = "resume_login"
        /\ flows[f].outcome = "ok"
        /\ flows[f].type = "create_entry"
        /\ \E i \in DOMAIN entries : entries[i].unique_id = flows[f].username

\* C16: there is at most one config entry per username, and it holds the
\* token of the most recent successful login for that username; a flow that
\* ended with a new entry finds it under its username, and a flow that ended
\* with abort (reauth_successful) finds the entry updated and reloaded.
C16_OneEntryPerUsername ==
    /\ \A i, j \in DOMAIN entries :
          entries[i].unique_id = entries[j].unique_id => i = j
    /\ \A i \in DOMAIN entries :
          entries[i].token = last_token[entries[i].unique_id]
    /\ \A u \in Usernames :
          last_token[u] # 0 => \E i \in DOMAIN entries : entries[i].unique_id = u
    /\ \A f \in FlowIds :
          flows[f].type \in {"create_entry", "abort"} =>
              \E i \in DOMAIN entries :
                  /\ entries[i].unique_id = flows[f].username
                  /\ flows[f].type = "abort" => entries[i].reloads > 0

\* Two flows completed for alice: the second one updated and reloaded the
\* entry the first one created, and bob has an entry of his own.
C16_Witness ==
    /\ Len(entries) = 2
    /\ entries[1] = [unique_id |-> "alice", token |-> 3, reloads |-> 1]
    /\ entries[2].unique_id = "bob"
    /\ \E f \in FlowIds : flows[f].type = "abort" /\ flows[f].username = "alice"

\* C17: when resume_login raises the auth library's exception, the step ends
\* re-showing the mfa form with invalid_mfa_code, the flow stays in the mfa
\* step and the entries are left as they were; a flow in the mfa step whose
\* code was rejected can still complete with an entry (C17_Witness).
C17_RejectedCodeStaysInMfa ==
    [][\A f \in FlowIds :
          (flows[f].step = "mfa" /\ flows'[f] # flows[f]
              /\ flows'[f].outcome = "GarthException") =>
              /\ flows'[f].step = "mfa"
              /\ flows'[f].type = "form"
              /\ flows'[f].errors = "invalid_mfa_code"
              /\ flows'[f].username = flows[f].username
              /\ entries' = entries]_vars

\* After MaxRejected rejected codes an accepted code completed the flow with
\* an entry.
C17_Witness ==
    \E f \in FlowIds :
        /\ flows[f].rejected = MaxRejected
        /\ flows[f].step = "done"
        /\ flows[f].call = "resume_login"
        /\ flows[f].outcome = "ok"
        /\ \E i \in DOMAIN entries : entries[i].unique_id = flows[f].username

(***************************************************************************)
(* The sensors over successive refreshes.                                  *)
(***************************************************************************)
exceptSensor ==
    <<alarmVars, entry_has_token, cycleVars, svcVars, snapVars, poolVars, flowVars,
      fallbackVars,
      restVars>>

SensorInit ==
    /\ entry_has_token = TRUE
    /\ AlarmIdle /\ CycleIdle /\ ServiceIdle /\ SnapshotIdle /\ PoolIdle /\ FlowIdle
    /\ RestIdle /\ SensorIdle /\ FallbackIdle

SensorNext == Refresh /\ UNCHANGED exceptSensor

SpecSensor == SensorInit /\ [][SensorNext]_vars

(***************************************************************************)
(* C18: a preserve_value sensor keeps its last known value.                *)
(***************************************************************************)
\* C18: for a sensor whose description has preserve_value true, once it has
\* reported a value other than None, a later refresh in which the API gives
\* None for its field leaves it reporting the last known value: whenever a
\* last known value exists, the state is that value.
C18_PreservedValueSurvivesNone ==
    \A k \in SensorKeys :
        (entity_description(k).preserve_value /\ last_known[k] # PyNone)
            => state[k] = last_known[k]

(***************************************************************************)
(* C19: set_active_gear, "set this as default, unset others".              *)
(***************************************************************************)
\* The gear that is default for activity type `type` at the vendor.
defaults_of(defaults, type) == {g \in Gears : <<type, g>> \in defaults}

OnlyThisInvoked ==
    svc_handler = "set_active_gear" /\ svc_setting = ONLY_THIS_AS_DEFAULT

\* C19: set_active_gear with ONLY_THIS_AS_DEFAULT issues the unset-default
\* calls for every other gear in the defaults of the activity type before the
\* set-default call for this gear (when the handler is about to set, no other
\* gear of the type is default), a handler that completed leaves this gear as
\* the only default of the type, and no step of it changes the defaults of
\* another activity type.
C19_OnlyThisAsDefault ==
    [][OnlyThisInvoked' =>
         /\ svc_pc' = "set" => defaults_of(srv_defaults', svc_type') \subseteq {svc_uuid'}
         /\ (svc_pc' = "done" /\ svc_error' = "none") =>
                defaults_of(srv_defaults', svc_type') = {svc_uuid'}
         /\ \A t \in ActivityTypeIds \ {svc_type'} :
                defaults_of(srv_defaults', t) = defaults_of(srv_defaults, t)]_vars

\* The handler completed after unsetting the other gear of the type, and the
\* other activity type still has both its defaults.
C19_Witness ==
    /\ OnlyThisInvoked
    /\ svc_pc = "done"
    /\ svc_error = "none"
    /\ svc_calls = <<"login", "get_gear_defaults", "set_gear_default", "set_gear_default">>
    /\ \E t \in ActivityTypeIds \ {svc_type} : defaults_of(srv_defaults, t) = Gears

(***************************************************************************)
(* The midnight fallback (coordinator.py 120-146) as a function of the     *)
(* local hour and of what get_user_summary returns for the two dates.      *)
(***************************************************************************)
Hours == 0..23

PyInt(n) == [kind |-> "int", value |-> n]

\* The forms of a daily summary: None, {}, a dict without the key totalSteps,
\* and dicts whose totalSteps is None, 0 or a positive count.
SummaryShapes == {"None", "empty", "no_key", "steps_None", "steps_0", "steps"}

Summary(cdate, shape) == [date |-> cdate, shape |-> shape]

\* get_user_summary(yesterday_date) returns a summary or raises.
YesterdayRaises == {PyRaise(f) : f \in VendorFailures}

YesterdayResults ==
    {Summary("yesterday", shape) : shape \in SummaryShapes} \cup YesterdayRaises

\* `not summary`
not_summary(s) == s.shape \in {"None", "empty"}

\* summary.get("totalSteps") of a summary that is a dict
get_totalSteps(s) ==
    CASE s.shape = "steps_0" -> PyInt(0)
      [] s.shape = "steps"   -> PyInt(4200)
      [] OTHER               -> PyNone

\* current_hour < 2 and (not summary or summary.get("totalSteps") in (None, 0))
fallback_condition_any_hour(hour, s) ==
    not_summary(s) \/ get_totalSteps(s) \in {PyNone, PyInt(0)}

fallback_condition(hour, s) ==
    hour < 2 /\ (not_summary(s) \/ get_totalSteps(s) \in {PyNone, PyInt(0)})

\* if yesterday_summary and yesterday_summary.get("totalSteps")
use_yesterday(y) == ~not_summary(y) /\ truthy(get_totalSteps(y))

\* The debug log after the fallback reads summary.get(...): None has no get.
log_summary(s) == IF s.shape = "None" THEN "AttributeError" ELSE "logged"

FallbackEntry ==
    /\ current_hour \in Hours
    /\ today_summary \in {Summary("today", shape) : shape \in SummaryShapes}
    /\ yesterday_summary \in YesterdayResults
    /\ summary = PyNone
    /\ summary_calls = <<>>
    /\ fallback_pc = "call"

\* Lines 126-146: get_user_summary(today), the fallback, the debug log.
MidnightFallback ==
    /\ fallback_pc = "call"
    /\ IF fallback_condition(current_hour, today_summary)
       THEN /\ summary_calls' = <<"today", "yesterday">>
            /\ IF yesterday_summary \in YesterdayRaises
               THEN /\ summary' = today_summary
                    /\ fallback_pc' = yesterday_summary.kind
               ELSE /\ summary' = IF use_yesterday(yesterday_summary)
                                  THEN yesterday_summary ELSE today_summary
                    /\ fallback_pc' = log_summary(summary')
       ELSE /\ summary_calls' = <<"today">>
            /\ summary' = today_summary
            /\ fallback_pc' = log_summary(summary')
    /\ UNCHANGED <<current_hour, today_summary, yesterday_summary>>

exceptFallback ==
    <<alarmVars, entry_has_token, cycleVars, svcVars, snapVars, poolVars, flowVars,
      sensorVars,
      restVars>>

FallbackInit ==
    /\ entry_has_token = TRUE
    /\ AlarmIdle /\ CycleIdle /\ ServiceIdle /\ SnapshotIdle /\ PoolIdle /\ FlowIdle
    /\ RestIdle /\ SensorIdle /\ FallbackEntry

FallbackNext == MidnightFallback /\ UNCHANGED exceptFallback

SpecFallback == FallbackInit /\ [][FallbackNext]_vars

(***************************************************************************)
(* C20: when yesterday's summary replaces today's.                         *)
(***************************************************************************)
FallbackRan == fallback_pc # "call"

\* C20: after the fallback ran, the summary in use is yesterday's exactly when
\* the local hour is below 2, today's summary is empty (None, {}) or has
\* totalSteps None (or no such key) or 0, and yesterday's summary has a
\* non-zero totalSteps; otherwise it is today's; and at hour 2 or later
\* get_user_summary is not called for yesterday's date.
C20_YesterdayReplacesTodayOnlyAtMidnight ==
    FallbackRan =>
        /\ summary = yesterday_summary <=>
              /\ current_hour < 2
              /\ today_summary.shape \in {"None", "empty", "no_key", "steps_None", "steps_0"}
              /\ yesterday_summary = Summary("yesterday", "steps")
        /\ summary # yesterday_summary => summary = today_summary
        /\ current_hour >= 2 => summary_calls = <<"today">>

\* At 1 o'clock today's summary has 0 steps and yesterday's, with steps, is used.
C20_Witness ==
    /\ fallback_pc = "logged"
    /\ current_hour = 1
    /\ today_summary = Summary("today", "steps_0")
    /\ summary_calls = <<"today", "yesterday">>
    /\ summary = Summary("yesterday", "steps")

(***************************************************************************)
(* One call of async_login, for each revision, each state of the token and *)
(* each outcome of the vendor's login.                                     *)
(***************************************************************************)
\* What self.api.login(token) can do: the outcomes the refresh cycle is
\* followed for, an authentication error built from a message only (it carries
\* no response), and further HTTP status codes.
TokenLoginOutcomes ==
    Outcomes \cup {"auth_bare", "http400", "http403", "http404", "http503"}

LoginCopies == {"coordinator", "init"}

LoginEntry ==
    /\ login_copy \in LoginCopies
    /\ login_has_token \in BOOLEAN
    /\ login_outcome \in TokenLoginOutcomes
    /\ login_returned = "none"
    /\ login_calls = <<>>

AsyncLogin ==
    /\ login_returned = "none"
    /\ login_returned' =
          IF login_copy = "coordinator"
          THEN async_login(login_outcome, login_has_token)
          ELSE async_login_init(login_outcome, login_has_token)
    /\ login_calls' = IF login_has_token THEN <<"login">> ELSE <<>>
    /\ UNCHANGED <<login_copy, login_has_token, login_outcome>>

oldVars ==
    <<alarmVars, entry_has_token, cycleVars, svcVars, snapVars, poolVars, flowVars,
      sensorVars, fallbackVars>>

exceptLogin == <<oldVars, setupVars, levelVars, optionVars>>

OldIdle ==
    /\ entry_has_token = TRUE
    /\ AlarmIdle /\ CycleIdle /\ ServiceIdle /\ SnapshotIdle /\ PoolIdle /\ FlowIdle
    /\ SensorIdle /\ FallbackIdle

LoginInit == OldIdle /\ LoginEntry /\ SetupIdle /\ LevelIdle /\ OptionIdle

LoginNext == AsyncLogin /\ UNCHANGED exceptLogin

SpecLogin == LoginInit /\ [][LoginNext]_vars

(***************************************************************************)
(* C21: the result of async_login for each outcome of the token login.     *)
(***************************************************************************)
\* C21: async_login gives exactly one result per outcome: a missing token, a
\* vendor authentication failure or HTTP 401 raise ConfigEntryAuthFailed; a
\* vendor connectivity failure raises ConfigEntryNotReady; a login without
\* exception returns True; every other failure returns False; and with the
\* token missing no vendor login call is made.
C21_LoginMapsEachOutcome ==
    login_returned # "none" =>
        /\ login_returned =
              CASE ~login_has_token -> "ConfigEntryAuthFailed"
                [] login_outcome \in {"auth", "auth_bare", "http401"} ->
                      "ConfigEntryAuthFailed"
                [] login_outcome = "conn" -> "ConfigEntryNotReady"
                [] login_outcome = "ok" -> "True"
                [] OTHER -> "False"
        /\ ~login_has_token => login_calls = <<>>

(***************************************************************************)
(* Setup and unload of config entries (__init__.py 34-57).  The host calls *)
(* async_setup_entry for an entry that is not set up and async_unload_entry *)
(* for one that is loaded.                                                 *)
(***************************************************************************)
\* Setup and unload calls followed.
MaxSetupCalls == 4

\* async_config_entry_first_refresh returns, or raises what the refresh raised
\* (a failed update is raised as ConfigEntryNotReady).
FirstRefreshOutcomes == {"ok", "ConfigEntryNotReady", "ConfigEntryAuthFailed"}

\* `if not await coordinator.async_login(): return False`: the step after each
\* result of the login; an exception of async_login leaves async_setup_entry.
setup_after_login_go(r) == "refresh"

setup_after_login(r) ==
    CASE r = "True" -> "refresh"
      [] r = "False" -> "return_false"
      [] OTHER -> "raise"

\* The state the host gives an entry whose setup returned or raised `r`.
state_after_setup(r) ==
    CASE r = "True" -> "loaded"
      [] r = "ConfigEntryNotReady" -> "setup_retry"
      [] OTHER -> "setup_error"

\* async_setup_entry of __init__.py for entry e.
SetupEntry(e) ==
    /\ setup_calls < MaxSetupCalls
    /\ entry_state[e].state \in {"not_loaded", "setup_retry", "setup_error"}
    /\ \E has_token \in BOOLEAN, outcome \in Outcomes, refresh \in FirstRefreshOutcomes :
        LET r == async_login_init(outcome, has_token)
            step == setup_after_login(r)
            refreshed == IF step = "refresh" THEN refresh ELSE "none"
            result == CASE step = "return_false" -> "False"
                        [] step = "raise" -> r
                        [] refreshed # "ok" -> refreshed
                        [] OTHER -> "True"
        IN  /\ entry_state' =
                 [entry_state EXCEPT ![e] =
                     [state |-> state_after_setup(result), login |-> r,
                      refresh |-> refreshed, returned |-> result]]
            /\ hass_data' = IF result = "True" THEN hass_data \cup {e} ELSE hass_data
            /\ forwarded' = IF result = "True" THEN forwarded \cup {e} ELSE forwarded
    /\ setup_calls' = setup_calls + 1

\* async_unload_entry for entry e.
UnloadEntry(e) ==
    /\ setup_calls < MaxSetupCalls
    /\ entry_state[e].state = "loaded"
    /\ \E unload_ok \in BOOLEAN :
        IF unload_ok
        THEN /\ hass_data' = hass_data \ {e}
             /\ forwarded' = forwarded \ {e}
             /\ entry_state' = [entry_state EXCEPT ![e] = NewEntry]
        ELSE /\ entry_state' = [entry_state EXCEPT ![e].state = "failed_unload"]
             /\ UNCHANGED <<hass_data, forwarded>>
    /\ setup_calls' = setup_calls + 1

exceptSetup == <<oldVars, loginVars, levelVars, optionVars>>

SetupInit == OldIdle /\ LoginIdle /\ SetupIdle /\ LevelIdle /\ OptionIdle

SetupNext ==
    \/ \E e \in EntryIds : SetupEntry(e) /\ UNCHANGED exceptSetup
    \/ \E e \in EntryIds : UnloadEntry(e) /\ UNCHANGED exceptSetup

SpecSetup == SetupInit /\ [][SetupNext]_vars

(***************************************************************************)
(* C22: hass.data holds a coordinator exactly for the entries set up.      *)
(***************************************************************************)
\* The states of an entry whose setup succeeded and which was not unloaded (a
\* failed unload leaves it set up).
SetUpStates == {"loaded", "failed_unload"}

MaxBadges == 2

\* LEVEL_POINTS: level -> point threshold, in the order of the dict.
LEVEL_POINTS == <<0, 20, 60, 140, 300, 620, 1260, 2540, 5100, 10220>>

\* Point values at and just below every threshold.
PointValues ==
    {LEVEL_POINTS[l] : l \in DOMAIN LEVEL_POINTS}
        \cup {LEVEL_POINTS[l] - 1 : l \in DOMAIN LEVEL_POINTS \ {1}} \cup {1}

Badges == [badgePoints : PointValues, badgeEarnedNumber : {1, 2}]

BadgeLists == UNION {[1..n -> Badges] : n \in 0..MaxBadges}

\* sum(badge["badgePoints"] * badge["badgeEarnedNumber"] for badge in badges)
RECURSIVE sum_points(_)
sum_points(bs) ==
    IF bs = <<>> THEN 0
    ELSE Head(bs).badgePoints * Head(bs).badgeEarnedNumber + sum_points(Tail(bs))

\* `if user_points >= points`
reached_any(points, threshold) == TRUE

reached(points, threshold) == points >= threshold

\* for level, points in LEVEL_POINTS.items(): if user_points >= points:
\*     user_level = level
RECURSIVE level_loop(_, _, _)
level_loop(points, level, acc) ==
    IF level > Len(LEVEL_POINTS) THEN acc
    ELSE level_loop(points, level + 1,
                    IF reached(points, LEVEL_POINTS[level]) THEN level ELSE acc)

userLevel(points) == level_loop(points, 1, 0)

LevelEntry ==
    /\ badges \in BadgeLists
    /\ user_points = 0
    /\ user_level = 0
    /\ level_pc = "call"

ComputeLevel ==
    /\ level_pc = "call"
    /\ user_points' = sum_points(badges)
    /\ user_level' = userLevel(user_points')
    /\ level_pc' = "done"
    /\ UNCHANGED badges

exceptLevel == <<oldVars, loginVars, setupVars, optionVars>>

LevelInit == OldIdle /\ LoginIdle /\ SetupIdle /\ LevelEntry /\ OptionIdle

LevelNext == ComputeLevel /\ UNCHANGED exceptLevel

SpecLevel == LevelInit /\ [][LevelNext]_vars

(***************************************************************************)
(* C23: the user level is the greatest level whose threshold is reached.   *)
(***************************************************************************)
\* C23: userPoints is the sum of badgePoints times badgeEarnedNumber over the
\* earned badges; userLevel is the greatest level of LEVEL_POINTS whose
\* threshold is at most userPoints; it is between 1 and 10; and it is not
\* below the level of any smaller non-negative point count.
C23_LevelIsGreatestReached ==
    level_pc = "done" =>
        /\ user_points = sum_points(badges)
        /\ user_level \in 1..10
        /\ LEVEL_POINTS[user_level] <= user_points
        /\ \A l \in DOMAIN LEVEL_POINTS : LEVEL_POINTS[l] <= user_points => l <= user_level
        /\ \A p \in PointValues : p <= user_points => userLevel(p) <= user_level

\* Two badges give 10220 points (2 x 5100 and 20): level 10 at its threshold.
C23_Witness ==
    /\ level_pc = "done"
    /\ Len(badges) = 2
    /\ user_points = 10220
    /\ user_level = 10

(***************************************************************************)
(* C24: upload_activity: re-login, file check, upload.                     *)
(***************************************************************************)
UploadInvoked == svc_handler = "handle_upload_activity"

\* C24: in every step of handle_upload_activity: the file is checked only
\* after async_login returned True; the upload is issued only after the file
\* check found the file; a missing file raises file_not_found with no upload
\* call; and a login that returned False raises login_failed at once, the file
\* check not reached.
C24_UploadOrder ==
    [][UploadInvoked' =>
         /\ svc_pc' = "file" => (svc_pc = "login" /\ svc_login' = "True")
         /\ svc_pc' = "write" => svc_pc = "file"
         /\ (Len(svc_calls') > Len(svc_calls)
                /\ svc_calls'[Len(svc_calls')] = "upload_activity")
                => svc_pc = "write"
         /\ svc_error' = "file_not_found" =>
                /\ svc_pc = "file"
                /\ svc_calls' = svc_calls
                /\ \A k \in DOMAIN svc_calls : svc_calls[k] # "upload_activity"
         /\ (svc_pc = "login" /\ svc_login' = "False") =>
                (svc_pc' = "done" /\ svc_error' = "login_failed")]_vars

\* The login succeeded, the file did not exist, and nothing was uploaded.
C24_Witness ==
    /\ UploadInvoked
    /\ svc_pc = "done"
    /\ svc_login = "True"
    /\ svc_error = "file_not_found"
    /\ svc_calls = <<"login">>

(***************************************************************************)
(* The options of an entry and the sensors set up from them                *)
(* (config_flow.py 224-237, sensor.py 52-83).  sensor_descriptions.py as   *)
(* given holds neither SENSOR_GROUPS nor the two functions over it that    *)
(* both callers import; they are written here as their callers use them.   *)
(***************************************************************************)
\* Groups in one submitted selection, and steps followed for one entry.
MaxSelected == 2
MaxOptionSteps == 3

\* SENSOR_GROUPS: group id -> the keys of its sensors and whether the group is
\* enabled by default.
SENSOR_GROUPS ==
    [activity |-> [sensors |-> {"totalSteps", "totalDistanceMeters"}, default |-> TRUE],
     sleep    |-> [sensors |-> {"sleepScore"}, default |-> TRUE],
     advanced |-> [sensors |-> {"hrvStatus", "enduranceScore"}, default |-> FALSE]]

get_default_enabled_groups == {g \in DOMAIN SENSOR_GROUPS : SENSOR_GROUPS[g].default}

get_sensors_for_groups(groups) ==
    UNION {SENSOR_GROUPS[g].sensors : g \in groups \cap DOMAIN SENSOR_GROUPS}

\* set(a_list)
set(list) == {list[i] : i \in DOMAIN list}

\* list(a_set): the elements once each, in an order the set's hashing decides.
lists_of(s) == {l \in [1..Cardinality(s) -> s] : set(l) = s}

\* The selections a user can submit: lists of group ids, repetitions included.
Selections == UNION {[1..n -> DOMAIN SENSOR_GROUPS] : n \in 0..MaxSelected}

\* sensor.py 53-59: the groups the setup enables.
enabled_groups_falsy(enabled_groups_list) ==
    IF enabled_groups_list = PyNone \/ enabled_groups_list.value = <<>>
    THEN get_default_enabled_groups
    ELSE set(enabled_groups_list.value)

enabled_groups(enabled_groups_list) ==
    IF enabled_groups_list = PyNone
    THEN get_default_enabled_groups
    ELSE set(enabled_groups_list.value)

\* async_step_init with user_input: the host stores the data of the created
\* entry as the options of the config entry.
SubmitOptions ==
    /\ Len(option_steps) < MaxOptionSteps
    /\ \E selection \in Selections :
        /\ submitted' = PyList(selection)
        /\ \E stored \in lists_of(set(selection)) : options' = PyList(stored)
    /\ option_steps' = Append(option_steps, "submit")
    /\ UNCHANGED entities

\* async_setup_entry of sensor.py: one sensor per description of the enabled
\* groups.
SensorSetup ==
    /\ Len(option_steps) < MaxOptionSteps
    /\ entities' = get_sensors_for_groups(enabled_groups(options))
    /\ option_steps' = Append(option_steps, "setup")
    /\ UNCHANGED <<options, submitted>>

exceptOption == <<oldVars, loginVars, setupVars, levelVars>>

OptionInit == OldIdle /\ LoginIdle /\ SetupIdle /\ LevelIdle /\ OptionIdle

OptionNext ==
    \/ SubmitOptions /\ UNCHANGED exceptOption
    \/ SensorSetup /\ UNCHANGED exceptOption

SpecOption == OptionInit /\ [][OptionNext]_vars

(***************************************************************************)
(* C25: the sensors set up are those of the stored groups.                 *)
(***************************************************************************)
IsSetupStep ==
    /\ Len(option_steps') = Len(option_steps) + 1
    /\ option_steps'[Len(option_steps')] = "setup"

DstAlarmDays == {"ONCE", "Mo", "Su"}
DstAlarmTimes == {0, 150, 165, 1439}
DstNowMinutes == {0, 150, 165, 180, 1439}

AlarmDstEntry ==
    /\ alarms \in {[isNone |-> FALSE, items |-> <<Alarm("ON", <<d>>, t)>>] :
                      d \in DstAlarmDays, t \in DstAlarmTimes}
    /\ time_zone \in TimeZones \cup {DstZone}
    /\ now \in {d * SecondsPerDay + m * SecondsPerMinute + s :
                   d \in 0..MaxDay, m \in DstNowMinutes, s \in NowSeconds}
    \* fold is 1 only in the second pass of the repeated hour
    /\ now_fold \in {0, 1}
    /\ now_fold = 1 => time_zone = DstZone /\ now \in (DstEnd - 3600)..(DstEnd - 1)
    /\ next_alarms = PyNone
    /\ alarm_pc = "call"

AlarmDstInit ==
    AlarmDstEntry /\ entry_has_token = TRUE /\ CycleIdle /\ ServiceIdle /\ SnapshotIdle /\ PoolIdle /\ FlowIdle /\ RestIdle /\ SensorIdle /\ FallbackIdle

AlarmDstNext == CalculateNextActiveAlarms

SpecAlarmDst == AlarmDstInit /\ [][AlarmDstNext]_vars

\* The instant (seconds on the UTC scale) an isoformat string names: its wall
\* clock less its offset.
Instant(ts) == WallClock(ts) - ts[5] * 60
\* The instant of now: its wall clock less the offset in force, which in the
\* second pass of the repeated hour is already the standard one.
NowInstant ==
    now - (utcoffset(time_zone)
             + (IF now_fold = 1 THEN 0 ELSE dst(time_zone, now))) * 60

\* C26: every timestamp calculate_next_active_alarms produces is not earlier
\* than now; that of a ONCE alarm is less than one day after now, that of a
\* weekly alarm is less than seven days after now and falls on the alarm's
\* weekday at the alarm's minute of the day.
C26_NextAlarmNotBeforeNow ==
    Returned /\ next_alarms.kind = "list" =>
        /\ \A k \in 1..Len(next_alarms.value) :
              Instant(next_alarms.value[k]) >= NowInstant
        /\ \A p \in OnPairs :
              \E k \in 1..Len(next_alarms.value) :
                 LET ts == next_alarms.value[k]
                 IN  /\ ts[2] * 60 + ts[3] = PairTime(p) /\ ts[4] = 0
                     /\ PairDay(p) = "ONCE" =>
                           Instant(ts) < NowInstant + SecondsPerDay
                     /\ PairDay(p) # "ONCE" =>
                           /\ Instant(ts) < NowInstant + DaysPerWeek * SecondsPerDay
                           /\ isoweekday(ts[1]) = DAY_TO_NUMBER[PairDay(p)]

=============================================================================
